---------------------------- MODULE Spec2Model ----------------------------
(***************************************************************************)
(* Court decision tracker (supreme_court_decisions.py, "Version C").       *)
(*                                                                         *)
(* The pipeline main() fetches a page of opinions, filters out the ids the *)
(* history files already hold, classifies each remaining record with       *)
(* analyze_political_leaning (a remote call with one bounded retry and a   *)
(* line-prefix response parser) and persists the batch to a CSV file and a *)
(* JSON file.                                                              *)
(*                                                                         *)
(* Python strings are sequences of tokens: a token is one character or one *)
(* word, so that strip, startswith, split and join are computed, not       *)
(* assumed.                                                                *)
(***************************************************************************)
EXTENDS Integers, Sequences, FiniteSets, TLC

VARIABLES
    env,        \* which of GOOGLE_API_KEY and COURTLISTENER_TOKEN are set
    client,     \* module global `client`: TRUE when the Gemini client exists
    caller,     \* who calls analyze_political_leaning: "direct", "main",
                \* or "retry" for direct calls against the short answers
    apl,        \* the activation of analyze_political_leaning
    fs,         \* the files, by path
    pc,         \* the control point of main
    outcome,    \* how the current run of main ended, "running" until then
    served,     \* the results the decision source has served so far
    decisions,          \* main's local `decisions`
    existing_ids,       \* main's local `existing_ids`
    new_decisions,      \* main's local `new_decisions`
    i,                  \* main's loop index
    analyzed_decisions, \* main's local `analyzed_decisions`
    page,       \* history: what the decision source answered in this run
    prev,       \* history: the page and the outcome of the run before
    start,      \* history: the files as they were when this run started
    classified, \* history: str(opinion_id) of every classification call
    events,     \* history: the queries, reads, calls, delays and writes of
                \* this run
    printed,    \* the messages the last step wrote to standard output, the
                \* progress lines left out
    runs        \* two processes that run main at the same time, each with
                \* its control point and its locals

config == <<env, client, caller>>

locals == <<decisions, existing_ids, new_decisions, i, analyzed_decisions>>

history == <<page, prev, start, classified, events>>

mainVars == <<fs, pc, outcome, served, locals, history>>

vars == <<config, apl, mainVars, printed, runs>>

-----------------------------------------------------------------------------
(* Bounds of the model.                                                    *)

\* Longest response, in lines, the classification service returns.
MaxLines == 4

\* Results the decision source serves, over all runs of main.
MaxServed == 3

\* Longest page of results with nested lookups, when fetch_recent_decisions
\* is called on its own.
MaxPage == 2

\* The results the decision source gives to one of two processes.
MaxShared == 1

-----------------------------------------------------------------------------
(* Python string operations, on token sequences.                           *)

LF == "\n"

Whitespace == {" ", LF}

SetMin(S) == CHOOSE x \in S : \A y \in S : x <= y

SetMax(S) == CHOOSE x \in S : \A y \in S : y <= x

\* str.strip(): leading and trailing whitespace removed.
Strip(s) ==
    LET keep == {k \in 1..Len(s) : s[k] \notin Whitespace}
    IN  IF keep = {} THEN <<>> ELSE SubSeq(s, SetMin(keep), SetMax(keep))

\* str.startswith(prefix)
StartsWith(s, prefix) ==
    /\ Len(s) >= Len(prefix)
    /\ SubSeq(s, 1, Len(prefix)) = prefix

\* s.split(sep, 1)[1]: what follows the first occurrence of sep.
AfterFirst(s, sep) ==
    LET at == {k \in 1..Len(s) : s[k] = sep}
    IN  SubSeq(s, SetMin(at) + 1, Len(s))

\* s.split(sep): the pieces between the occurrences of sep ('' gives ['']).
RECURSIVE Split(_, _)
Split(s, sep) ==
    LET at == {k \in 1..Len(s) : s[k] = sep}
    IN  IF at = {} THEN <<s>>
        ELSE <<SubSeq(s, 1, SetMin(at) - 1)>>
                 \o Split(SubSeq(s, SetMin(at) + 1, Len(s)), sep)

\* sep.join(parts)
RECURSIVE Join(_, _)
Join(parts, sep) ==
    IF parts = <<>> THEN <<>>
    ELSE IF Len(parts) = 1 THEN parts[1]
    ELSE parts[1] \o <<sep>> \o Join(Tail(parts), sep)

\* `needle in s` for a one-token needle.
Contains(s, needle) == \E k \in 1..Len(s) : s[k] = needle

-----------------------------------------------------------------------------
(* The response parser of analyze_political_leaning.                       *)

Prefix(field) == <<field, ":">>

\* Faulty variant of ParseInit: reasoning starts out empty.
ParseInitEmptyReasoning ==
    [classification |-> <<"Unknown">>,
     confidence     |-> <<"N/A">>,
     tags           |-> <<>>,
     notes          |-> <<>>,
     reasoning      |-> <<>>,
     in_summary     |-> FALSE,
     summary_lines  |-> <<>>]

\* The parser's locals before the loop over the lines.
ParseInit ==
    [classification |-> <<"Unknown">>,
     confidence     |-> <<"N/A">>,
     tags           |-> <<>>,
     notes          |-> <<>>,
     reasoning      |-> <<"N/A">>,
     in_summary     |-> FALSE,
     summary_lines  |-> <<>>]

\* elif line.startswith('Summary:'): the summary opens with the line's value.
OnSummary(st, line) ==
    LET summary_part == Strip(AfterFirst(line, ":"))
    IN  [st EXCEPT !.in_summary = TRUE,
                   !.summary_lines =
                       IF summary_part # <<>>
                       THEN Append(@, summary_part) ELSE @]

\* Faulty variant of OnReasoning: the Reasoning line leaves the summary open.
OnReasoningKeepsSummary(st, line) ==
    [st EXCEPT !.reasoning = Strip(AfterFirst(line, ":"))]

\* elif line.startswith('Reasoning:'): the summary is closed.
OnReasoning(st, line) ==
    [st EXCEPT !.in_summary = FALSE,
               !.reasoning = Strip(AfterFirst(line, ":"))]

\* elif in_summary and line.strip(): a continuation line of the summary.
OnOther(st, line) ==
    IF st.in_summary /\ Strip(line) # <<>>
    THEN [st EXCEPT !.summary_lines = Append(@, Strip(line))]
    ELSE st

\* Faulty variant of ParseLine: inside a summary a Tags line is taken for a
\* continuation line.
ParseLineTagsInSummary(st, line) ==
    IF StartsWith(line, Prefix("Classification"))
    THEN [st EXCEPT !.classification = Strip(AfterFirst(line, ":"))]
    ELSE IF StartsWith(line, Prefix("Confidence"))
    THEN [st EXCEPT !.confidence = Strip(AfterFirst(line, ":"))]
    ELSE IF StartsWith(line, Prefix("Tags")) /\ ~st.in_summary
    THEN [st EXCEPT !.tags = Strip(AfterFirst(line, ":"))]
    ELSE IF StartsWith(line, Prefix("Notes"))
    THEN [st EXCEPT !.notes = Strip(AfterFirst(line, ":"))]
    ELSE IF StartsWith(line, Prefix("Summary")) THEN OnSummary(st, line)
    ELSE IF StartsWith(line, Prefix("Reasoning")) THEN OnReasoning(st, line)
    ELSE OnOther(st, line)

\* One iteration of `for line in lines`.
ParseLine(st, line) ==
    IF StartsWith(line, Prefix("Classification"))
    THEN [st EXCEPT !.classification = Strip(AfterFirst(line, ":"))]
    ELSE IF StartsWith(line, Prefix("Confidence"))
    THEN [st EXCEPT !.confidence = Strip(AfterFirst(line, ":"))]
    ELSE IF StartsWith(line, Prefix("Tags"))
    THEN [st EXCEPT !.tags = Strip(AfterFirst(line, ":"))]
    ELSE IF StartsWith(line, Prefix("Notes"))
    THEN [st EXCEPT !.notes = Strip(AfterFirst(line, ":"))]
    ELSE IF StartsWith(line, Prefix("Summary")) THEN OnSummary(st, line)
    ELSE IF StartsWith(line, Prefix("Reasoning")) THEN OnReasoning(st, line)
    ELSE OnOther(st, line)

\* The loop over the lines, first line first.
RECURSIVE ParseLines(_, _)
ParseLines(st, lines) ==
    IF lines = <<>> THEN st
    ELSE ParseLines(ParseLine(st, Head(lines)), Tail(lines))

\* The 6-tuple a call returns, by field name.
Result(classification, confidence, reasoning, tags, notes, summary) ==
    [classification |-> classification,
     confidence     |-> confidence,
     reasoning      |-> reasoning,
     tags           |-> tags,
     notes          |-> notes,
     summary        |-> summary]

\* response.text.strip() split into lines, parsed, and returned as the tuple.
ParseResponse(text) ==
    LET lines == Split(Strip(text), LF)
        st    == ParseLines(ParseInit, lines)
    IN  Result(st.classification, st.confidence, st.reasoning, st.tags,
               st.notes,
               IF st.summary_lines # <<>>
               THEN Join(st.summary_lines, " ")
               ELSE <<"No summary available">>)

-----------------------------------------------------------------------------
(* analyze_political_leaning(case_name, decision_text).                    *)

\* max_retries, and the shortest text that is sent to the service.
MaxRetries == 2

MinTextLen == 200

\* A decision text is None or a string, of which only the length matters.
NoText == [isNone |-> TRUE, len |-> 0]

TextOfLen(n) == [isNone |-> FALSE, len |-> n]

\* `not decision_text or len(decision_text) < 200`
TooShort(text) == text.isNone \/ text.len = 0 \/ text.len < MinTextLen

\* One generate_content call: a response with text, a response whose text is
\* None, or an exception with a message.
TextOutcome(text) == [kind |-> "text", text |-> text]

NoTextOutcome == [kind |-> "notext", text |-> <<>>]

RaiseOutcome(msg) == [kind |-> "raise", text |-> msg]

\* str(e) of the exception the try block ends with: response.text.strip()
\* raises AttributeError when the text is None.
ErrorStr(o) ==
    IF o.kind = "notext"
    THEN <<"'NoneType' object has no attribute 'strip'">>
    ELSE o.text

\* Faulty variant of IsRateLimit: every failure is taken for a rate limit.
IsRateLimitAlways(error_str) == TRUE

\* Faulty variant of IsRateLimit: the quota signal is not recognised.
IsRateLimitOnly429(error_str) == Contains(error_str, "429")

\* '429' in error_str or 'RESOURCE_EXHAUSTED' in error_str
IsRateLimit(error_str) ==
    Contains(error_str, "429") \/ Contains(error_str, "RESOURCE_EXHAUSTED")

NoClientResult ==
    Result(<<"Error">>, <<"N/A">>, <<"Gemini client not initialized">>,
           <<>>, <<>>, <<"No analysis available">>)

InsufficientResult ==
    Result(<<"Insufficient Text">>, <<"N/A">>, <<"Not enough text to analyze">>,
           <<>>, <<>>, <<"No text available for summary">>)

ErrorResult(error_str) ==
    Result(<<"Error">>, <<"N/A">>, error_str, <<>>, <<>>,
           <<"Error generating summary">>)

AplIdle ==
    [pc |-> "idle", case_name |-> <<>>, text |-> NoText, attempt |-> 0,
     calls |-> 0, waits |-> 0, seen |-> <<>>, result |-> NoClientResult]

\* The activation right after the call, before the first statement.
AplCalled(case_name, text) ==
    [AplIdle EXCEPT !.pc = "entry", !.case_name = case_name, !.text = text]

AplReturned(a, result) == [a EXCEPT !.pc = "returned", !.result = result]

-----------------------------------------------------------------------------
(* What the classification service may answer.                             *)

CaseNames == {<<"Roe v. Wade">>, <<"Unknown Case">>}

DirectTexts ==
    {NoText, TextOfLen(0), TextOfLen(MinTextLen - 1), TextOfLen(MinTextLen)}

\* The lines a response is made of.
ResponseLines ==
    {Prefix("Classification") \o <<" ", "Liberal">>,
     Prefix("Tags") \o <<" ", "Privacy">>,
     Prefix("Summary"),
     Prefix("Summary") \o <<" ", "s1", " ">>,
     Prefix("Reasoning") \o <<" ", "r1">>,
     <<>>,
     <<" ">>,
     <<" ", "s2">>,
     <<"s3", " ", "s4", " ">>,
     <<" ">> \o Prefix("Tags") \o <<"s5">>}

RECURSIVE SeqsUpTo(_, _)
SeqsUpTo(S, n) ==
    IF n = 0 THEN {<<>>}
    ELSE LET shorter == SeqsUpTo(S, n - 1)
         IN  shorter \cup {Append(q, x) : q \in shorter, x \in S}

Responses == {Join(ls, LF) : ls \in SeqsUpTo(ResponseLines, MaxLines)}

RateLimitErrors ==
    {<<"429", " ", "Too Many Requests">>, <<"RESOURCE_EXHAUSTED">>}

OtherErrors == {<<"503", " ", "Service Unavailable">>}

\* The six fields in the order the prompt asks for them.
FieldOrder ==
    <<"Classification", "Confidence", "Tags", "Notes", "Summary", "Reasoning">>

\* The values a response gives to the six fields: plain ones, and ones with
\* whitespace around them or with nothing after the colon.
FieldValues ==
    {[Classification |-> <<"Liberal">>, Confidence |-> <<"High">>,
      Tags |-> <<"Privacy">>, Notes |-> <<"n1">>,
      Summary |-> <<"s1">>, Reasoning |-> <<"r1">>],
     [Classification |-> <<" ", "Very Liberal", " ">>, Confidence |-> <<"Low">>,
      Tags |-> <<>>, Notes |-> <<"n2", " ">>,
      Summary |-> <<>>, Reasoning |-> <<"r2", ":", "r3">>]}

FieldLine(field, value) ==
    Prefix(field) \o (IF value = <<>> THEN <<>> ELSE <<" ">> \o value)

\* The response in the format the prompt asks for: one line per field.
CanonicalLines(v) ==
    [k \in 1..Len(FieldOrder) |-> FieldLine(FieldOrder[k], v[FieldOrder[k]])]

Orders(n) ==
    {p \in [1..n -> 1..n] : \A a, b \in 1..n : a # b => p[a] # p[b]}

\* The six lines in any order.
PermutedResponses ==
    {Join([k \in 1..Len(FieldOrder) |-> CanonicalLines(v)[p[k]]], LF) :
         v \in FieldValues, p \in Orders(Len(FieldOrder))}

\* The lines of the fields in `present`, in the canonical order.
LinesOf(v, present) ==
    SelectSeq(CanonicalLines(v),
              LAMBDA line : \E k \in 1..Len(FieldOrder) :
                                /\ FieldOrder[k] \in present
                                /\ line = CanonicalLines(v)[k])

\* Responses from which any of the six lines may be missing.
PartialResponses ==
    {Join(LinesOf(v, present), LF) :
         v \in FieldValues,
         present \in SUBSET {FieldOrder[k] : k \in 1..Len(FieldOrder)}}

\* The outcomes one generate_content call may have, called directly.
DirectRemote ==
    {TextOutcome(t) : t \in Responses \cup PermutedResponses \cup PartialResponses}
        \cup {NoTextOutcome}
        \cup {RaiseOutcome(m) : m \in RateLimitErrors \cup OtherErrors}

\* What the service answers to main: one well-formed response, or a failure.
MainRemote ==
    {TextOutcome(Join(<<Prefix("Classification") \o <<" ", "Liberal">>,
                        Prefix("Summary") \o <<" ", "s1">>,
                        Prefix("Reasoning") \o <<" ", "r1">>>>, LF)),
     RaiseOutcome(<<"429", " ", "Too Many Requests">>),
     RaiseOutcome(<<"503", " ", "Service Unavailable">>)}

\* The short answers: a response of at most one line, no text, or a
\* failure of either kind.
RetryRemote ==
    {TextOutcome(Join(ls, LF)) : ls \in SeqsUpTo(ResponseLines, 1)}
        \cup {NoTextOutcome}
        \cup {RaiseOutcome(m) : m \in RateLimitErrors \cup OtherErrors}

Remote ==
    IF caller = "direct" THEN DirectRemote
    ELSE IF caller = "retry" THEN RetryRemote
    ELSE MainRemote

-----------------------------------------------------------------------------
(* The steps of analyze_political_leaning.                                 *)

\* Faulty variant of AplGuard: the text guard is missing.
AplGuardNoTextCheck ==
    /\ apl.pc = "entry"
    /\ apl' = IF ~client THEN AplReturned(apl, NoClientResult)
              ELSE [apl EXCEPT !.pc = "attempt", !.attempt = 0]
    /\ UNCHANGED <<config, mainVars>>
    /\ printed' = <<>>
    /\ UNCHANGED runs

\* The two guards before the prompt is built, then the first loop iteration.
AplGuard ==
    /\ apl.pc = "entry"
    /\ apl' = IF ~client THEN AplReturned(apl, NoClientResult)
              ELSE IF TooShort(apl.text)
              THEN AplReturned(apl, InsufficientResult)
              ELSE [apl EXCEPT !.pc = "attempt", !.attempt = 0]
    /\ UNCHANGED <<config, mainVars>>
    /\ printed' = <<>>
    /\ UNCHANGED runs

\* What the except clause prints for the outcome o of the remote call.
RateLimitHit == "[!] Rate limit hit, waiting 60 seconds before retry..."

ErrorAnalyzing == "[!] Error analyzing with Gemini"

AttemptMessages(a, o) ==
    IF o.kind = "text" THEN <<>>
    ELSE IF IsRateLimit(ErrorStr(o)) /\ a.attempt < MaxRetries - 1
    THEN <<RateLimitHit>>
    ELSE <<ErrorAnalyzing>>

\* Faulty variant of AfterAttempt: the cooldown is taken after the last
\* attempt as well.
AfterAttemptAlwaysWaits(a, o) ==
    LET b == [a EXCEPT !.calls = @ + 1, !.seen = Append(@, o)]
    IN  IF o.kind = "text" THEN AplReturned(b, ParseResponse(o.text))
        ELSE IF IsRateLimit(ErrorStr(o))
        THEN [b EXCEPT !.pc = "cooldown"]
        ELSE AplReturned(b, ErrorResult(ErrorStr(o)))

\* What one loop iteration makes of the outcome o of its remote call: the
\* parsed result, the wait before the retry, or the Error result.
AfterAttempt(a, o) ==
    LET b == [a EXCEPT !.calls = @ + 1, !.seen = Append(@, o)]
    IN  IF o.kind = "text" THEN AplReturned(b, ParseResponse(o.text))
        ELSE IF IsRateLimit(ErrorStr(o)) /\ a.attempt < MaxRetries - 1
        THEN [b EXCEPT !.pc = "cooldown"]
        ELSE AplReturned(b, ErrorResult(ErrorStr(o)))

\* One iteration of `for attempt in range(max_retries)`: the remote call, and
\* the parse or the except clause.
AplAttempt ==
    /\ apl.pc = "attempt"
    /\ \E o \in Remote :
           /\ apl' = AfterAttempt(apl, o)
           /\ printed' = AttemptMessages(apl, o)
    /\ UNCHANGED <<config, mainVars>>
    /\ UNCHANGED runs

\* time.sleep(wait_time); continue. The loop ends after max_retries
\* iterations with "Max retries exceeded".
AplCooldown ==
    /\ apl.pc = "cooldown"
    /\ apl' = LET b == [apl EXCEPT !.waits = @ + 1, !.attempt = @ + 1]
              IN  IF b.attempt < MaxRetries THEN [b EXCEPT !.pc = "attempt"]
                  ELSE AplReturned(b, ErrorResult(<<"Max retries exceeded">>))
    /\ UNCHANGED <<config, mainVars>>
    /\ printed' = <<>>
    /\ UNCHANGED runs

-----------------------------------------------------------------------------
(* Decisions and the two kinds of file.                                    *)

\* An opinion_id is the integer the source gave or the string 'N/A'.
IdInt(n) == [isInt |-> TRUE, n |-> n, s |-> <<>>]

IdStr(s) == [isInt |-> FALSE, n |-> 0, s |-> s]

\* str(value) of an opinion_id.
PyStr(v) == IF v.isInt THEN <<ToString(v.n)>> ELSE v.s

\* text[:15000]
TextBudget == 15000

Truncate(n) == IF n > TextBudget THEN TextBudget ELSE n

\* What d.get(key, '') finds in a JSON object: no such key, null, or a
\* string.
Missing == [kind |-> "missing", s |-> <<>>]

Null == [kind |-> "null", s |-> <<>>]

Str(s) == [kind |-> "str", s |-> s]

\* d.get(key, ''): the string, '' for a missing key; None is IsNone.
IsNone(v) == v.kind = "null"

Got(v) == IF v.kind = "str" THEN v.s ELSE <<>>

\* The truth value of d.get(key).
Truthy(v) == v.kind = "str" /\ v.s # <<>>

\* What the cluster lookup of a result gives: no cluster URL ("none"), a
\* timeout, another exception, a status other than 200, a 200 whose JSON
\* is null, or a 200 with the cluster's fields.
ClusterWithout(kind) ==
    [kind |-> kind, case_name |-> Missing, author_str |-> Missing,
     judges |-> Missing, per_curiam |-> FALSE]

ClusterData(case_name, author_str, judges, per_curiam) ==
    [kind |-> "ok", case_name |-> case_name, author_str |-> author_str,
     judges |-> judges, per_curiam |-> per_curiam]

\* What the detail lookup of a result gives: the same failures, or a 200
\* with a plain_text that is a string (of some length) or null.
DetailWithout(kind) == [kind |-> kind, plain_text |-> TextOfLen(0)]

DetailData(plain_text) == [kind |-> "ok", plain_text |-> plain_text]

\* `if cluster_data:` is true for a fetched cluster only.
HasClusterData(res) == res.cluster.kind = "ok"

\* author after lines 115-125, before the per curiam fallback.
AuthorSteps(res) ==
    LET a1 == Strip(Got(res.author_str))
        a2 == IF a1 = <<>> /\ HasClusterData(res)
              THEN Strip(Got(res.cluster.author_str)) ELSE a1
        judges == Strip(Got(res.cluster.judges))
    IN  [a1 |-> a1, a2 |-> a2,
         a3 |-> IF a2 = <<>> /\ HasClusterData(res) /\ judges # <<>>
                THEN judges ELSE a2]

\* Faulty variant of Author: the judges field comes before the cluster's
\* author_str.
AuthorJudgesFirst(res) ==
    LET a1 == Strip(Got(res.author_str))
        judges == Strip(Got(res.cluster.judges))
        a2 == IF a1 = <<>> /\ HasClusterData(res) /\ judges # <<>>
              THEN judges ELSE a1
        a3 == IF a2 = <<>> /\ HasClusterData(res)
              THEN Strip(Got(res.cluster.author_str)) ELSE a2
    IN  IF a3 # <<>> THEN a3
        ELSE IF res.per_curiam \/ (HasClusterData(res) /\ res.cluster.per_curiam)
        THEN <<"Per Curiam">>
        ELSE <<"Per Curiam (unsigned)">>

\* The author of a decision.
Author(res) ==
    IF AuthorSteps(res).a3 # <<>> THEN AuthorSteps(res).a3
    ELSE IF res.per_curiam \/ (HasClusterData(res) /\ res.cluster.per_curiam)
    THEN <<"Per Curiam">>
    ELSE <<"Per Curiam (unsigned)">>

\* str.title() on one word.
Capital(w) ==
    CASE w = "roe"  -> "Roe"
      [] w = "v"    -> "V"
      [] w = "wade" -> "Wade"
      [] OTHER      -> w

\* url_path.split('/')[-2].replace('-', ' ').title()
SlugTitle(url_path) ==
    LET parts == Split(url_path, "/")
        slug  == parts[Len(parts) - 1]
    IN  [k \in 1..Len(slug) |->
            IF slug[k] = "-" THEN " " ELSE Capital(slug[k])]

\* The name found in the result or in its cluster, '' when there is none.
GivenName(res) ==
    IF Truthy(res.case_name) THEN res.case_name.s
    ELSE IF HasClusterData(res) /\ Truthy(res.cluster.case_name)
    THEN res.cluster.case_name.s
    ELSE <<>>

\* The case name of a decision.
CaseName(res) ==
    LET name == IF GivenName(res) # <<>> THEN GivenName(res)
                ELSE IF Truthy(res.absolute_url)
                THEN SlugTitle(res.absolute_url.s)
                ELSE <<"Unknown Case">>
    IN  IF name = <<>> THEN <<"Unknown Case">> ELSE name

\* text after the detail lookup: a result without text and with an id takes
\* the plain_text of a fetched detail, null included.
FinalText(res) ==
    IF (res.plain_text.isNone \/ res.plain_text.len = 0)
           /\ res.id # 0 /\ res.detail.kind = "ok"
    THEN res.detail.plain_text
    ELSE res.plain_text

\* The loop body raises for this result, outside the inner try blocks:
\* a method call on None, a slice of None, an index out of range.
Raises(res) ==
    \/ res.cluster.kind = "null"
    \/ IsNone(res.author_str)
    \/ /\ AuthorSteps(res).a1 = <<>>
       /\ HasClusterData(res)
       /\ IsNone(res.cluster.author_str)
    \/ /\ AuthorSteps(res).a2 = <<>>
       /\ HasClusterData(res)
       /\ IsNone(res.cluster.judges)
    \/ /\ GivenName(res) = <<>>
       /\ Truthy(res.absolute_url)
       /\ Len(Split(res.absolute_url.s, "/")) < 2
    \/ FinalText(res).isNone

\* Faulty variant of Decision: a text taken from the detail lookup is kept
\* whole.
DecisionCutsListTextOnly(res) ==
    [opinion_id |-> IF res.id # 0 THEN IdInt(res.id) ELSE IdStr(<<"N/A">>),
     case_name  |-> CaseName(res),
     author     |-> Author(res),
     plain_text |-> IF FinalText(res) = res.plain_text
                    THEN TextOfLen(Truncate(FinalText(res).len))
                    ELSE FinalText(res)]

\* decisions.append({...}) in fetch_recent_decisions, cut down to the
\* fields the model keeps; an id of 0 stands for a missing one.
Decision(res) ==
    [opinion_id |-> IF res.id # 0 THEN IdInt(res.id) ELSE IdStr(<<"N/A">>),
     case_name  |-> CaseName(res),
     author     |-> Author(res),
     plain_text |-> TextOfLen(Truncate(FinalText(res).len))]

\* Faulty variant of FetchRecentDecisions: the status of the answer is not
\* looked at.
FetchRecentDecisionsAnyStatus(p) ==
    IF ~env.token THEN <<>>
    ELSE IF ~p.ok /\ p.failure # "http_error" THEN <<>>
    ELSE IF \E k \in 1..Len(p.results) : Raises(p.results[k]) THEN <<>>
    ELSE [k \in 1..Len(p.results) |-> Decision(p.results[k])]

\* fetch_recent_decisions: one decision per result; [] without a token,
\* when the top-level query failed, and when the loop body raised.
FetchRecentDecisions(p) ==
    IF ~env.token THEN <<>>
    ELSE IF ~p.ok THEN <<>>
    ELSE IF \E k \in 1..Len(p.results) : Raises(p.results[k]) THEN <<>>
    ELSE [k \in 1..Len(p.results) |-> Decision(p.results[k])]

\* analyzed_decisions.append({...}) in main.
Analyzed(decision, result) ==
    [opinion_id     |-> decision.opinion_id,
     case_name      |-> decision.case_name,
     classification |-> result.classification,
     text_length    |-> decision.plain_text.len]

\* The default paths of load_existing_data, save_to_csv and save_to_json.
LoadCsvDefault == "supreme_court_decisions_datefilter.csv"

LoadJsonDefault == "supreme_court_decisions_datefilter.json"

SaveCsvDefault == "supreme_court_decisions.csv"

SaveJsonDefault == "supreme_court_decisions.json"

Paths == {LoadCsvDefault, LoadJsonDefault, SaveCsvDefault, SaveJsonDefault}

\* A file: absent, or present with its rows (CSV) or its items (JSON); a
\* JSON file that json.load cannot parse is not valid, and content is then
\* the items still legible in it.
Absent == [exists |-> FALSE, valid |-> TRUE, content |-> <<>>]

File(content) == [exists |-> TRUE, valid |-> TRUE, content |-> content]

Unparseable(content) == [exists |-> TRUE, valid |-> FALSE, content |-> content]

\* fieldnames of save_to_csv, cut down to the fields the model keeps.
Fieldnames ==
    <<<<"opinion_id">>, <<"case_name">>, <<"classification">>,
      <<"text_length">>>>

\* writer.writerow(decision): every value as str(value), in fieldnames order.
CsvRow(d) ==
    <<PyStr(d.opinion_id), d.case_name, d.classification,
      <<ToString(d.text_length)>>>>

\* row.get('opinion_id', '') for every row csv.DictReader yields: the first
\* line gives the keys, whatever it holds.
CsvOpinionIds(lines) ==
    IF lines = <<>> THEN {}
    ELSE LET keys == lines[1]
             at   == {k \in 1..Len(keys) : keys[k] = <<"opinion_id">>}
         IN  {IF at = {} THEN <<>> ELSE lines[r][SetMax(at)] :
                  r \in 2..Len(lines)}

\* Faulty variant of LoadExistingData: the JSON file is not consulted.
LoadExistingDataCsvOnly(files, csv_filename, json_filename) ==
    IF files[csv_filename].exists
    THEN CsvOpinionIds(files[csv_filename].content) ELSE {}

\* load_existing_data(csv_filename, json_filename)
LoadExistingData(files, csv_filename, json_filename) ==
    LET csv_ids  == IF files[csv_filename].exists
                    THEN CsvOpinionIds(files[csv_filename].content) ELSE {}
        json     == files[json_filename]
        json_ids == IF json.exists /\ json.valid
                    THEN {PyStr(json.content[k].opinion_id) :
                              k \in 1..Len(json.content)}
                    ELSE {}
    IN  csv_ids \cup json_ids

\* Faulty variant of CsvWritten: the header is never written.
CsvWrittenRowsOnly(files, decisions_data, filename) ==
    [k \in 1..Len(decisions_data) |-> CsvRow(decisions_data[k])]

\* What save_to_csv writes to the file, in order: the header if the file
\* did not exist, then one row per decision.
CsvWritten(files, decisions_data, filename) ==
    (IF files[filename].exists THEN <<>> ELSE <<Fieldnames>>)
        \o [k \in 1..Len(decisions_data) |-> CsvRow(decisions_data[k])]

\* The file after open(filename, mode) and the first n lines written:
\* mode 'a' keeps what an existing file holds.
CsvAfter(files, decisions_data, filename, n) ==
    File((IF files[filename].exists THEN files[filename].content ELSE <<>>)
             \o SubSeq(CsvWritten(files, decisions_data, filename), 1, n))

\* save_to_csv(decisions_data, filename), returning normally.
SaveToCsv(files, decisions_data, filename) ==
    [files EXCEPT ![filename] =
        CsvAfter(files, decisions_data, filename,
                 Len(CsvWritten(files, decisions_data, filename)))]

\* all_data in save_to_json: an existing file that cannot be parsed counts
\* as [].
AllData(files, decisions_data, filename) ==
    (IF files[filename].exists /\ files[filename].valid
     THEN files[filename].content ELSE <<>>) \o decisions_data

\* Faulty variant of SaveToJson: the file is rewritten with the new batch only.
SaveToJsonBatchOnly(files, decisions_data, filename) ==
    [files EXCEPT ![filename] = File(decisions_data)]

\* save_to_json(decisions_data, filename), returning normally.
SaveToJson(files, decisions_data, filename) ==
    [files EXCEPT ![filename] = File(AllData(files, decisions_data, filename))]

-----------------------------------------------------------------------------
(* What the decision source may answer, and the files a run may find.      *)

\* A result that comes with its name, its author and its text, and with no
\* cluster.
PlainResult(id, case_name, text_len) ==
    [id |-> id, case_name |-> Str(case_name), absolute_url |-> Missing,
     author_str |-> Str(<<"Alito">>), per_curiam |-> FALSE,
     plain_text |-> TextOfLen(text_len),
     cluster |-> ClusterWithout("none"), detail |-> DetailWithout("status")]

\* A result without text, whose detail lookup gives the text.
DetailedResult(id, case_name, text_len) ==
    [PlainResult(id, case_name, 0) EXCEPT
        !.detail = DetailData(TextOfLen(text_len))]

RawResults ==
    {DetailedResult(1, <<"Roe v. Wade">>, TextBudget + 2),
     PlainResult(2, <<"Unknown Case">>, MinTextLen - 1),
     PlainResult(0, <<"Roe v. Wade">>, TextBudget + 1)}

\* The ways the top-level query fails: requests.Timeout, raise_for_status,
\* any other exception.
FailureKinds == {"timeout", "http_error", "exception"}

QueryFailed(kind, results) ==
    [ok |-> FALSE, failure |-> kind, results |-> results]

\* The failed query main meets: an error status and no results.
MainFailures == {QueryFailed("http_error", <<>>)}

\* The pages of at most n results.
Pages(n) ==
    {[ok |-> TRUE, failure |-> "none", results |-> rs] :
         rs \in SeqsUpTo(RawResults, n)}

\* A record an earlier version of the program left in the *_datefilter files.
OldRecord ==
    [opinion_id |-> IdInt(1), case_name |-> <<"Roe v. Wade">>,
     classification |-> <<"Center">>, text_length |-> MinTextLen]

InitialFiles ==
    {[p \in Paths |->
         IF p = LoadCsvDefault THEN c ELSE IF p = LoadJsonDefault THEN j
         ELSE Absent] :
       c \in {Absent, File(<<Fieldnames, CsvRow(OldRecord)>>)},
       j \in {Absent, Unparseable(<<>>), File(<<OldRecord>>)}}

-----------------------------------------------------------------------------
(* What is printed.                                                        *)

ClusterTimedOut == "[!] Cluster fetch timed out"

ClusterNotFetched == "[!] Could not fetch cluster data"

DetailNotFetched == "[!] Could not fetch detail"

TokenRequired == "[!] ERROR: COURTLISTENER_TOKEN required"

RequestTimedOut == "[!] Initial request timed out"

ErrorFetching == "[!] Error fetching from CourtListener"

\* The except clauses of the cluster lookup; a status other than 200 is
\* passed over without a word.
ClusterMessages(res) ==
    IF res.cluster.kind = "timeout" THEN <<ClusterTimedOut>>
    ELSE IF res.cluster.kind = "raise" THEN <<ClusterNotFetched>>
    ELSE <<>>

\* The except clause of the detail lookup, which is made for a result
\* without text and with an id; a null answer raises inside the try.
DetailMessages(res) ==
    IF /\ res.plain_text.isNone \/ res.plain_text.len = 0
       /\ res.id # 0
       /\ res.detail.kind \in {"timeout", "raise", "null"}
    THEN <<DetailNotFetched>>
    ELSE <<>>

\* The loop body raises before it gets to the detail lookup: every raise
\* but the one of text[:15000].
RaisesBeforeDetail(res) == Raises([res EXCEPT !.plain_text = TextOfLen(1)])

\* What the loop of fetch_recent_decisions prints up to the result at
\* which it raises, and the outer except clause then.
RECURSIVE LoopMessages(_)
LoopMessages(results) ==
    IF results = <<>> THEN <<>>
    ELSE LET res == Head(results)
         IN  ClusterMessages(res)
                 \o (IF RaisesBeforeDetail(res) THEN <<>>
                     ELSE DetailMessages(res))
                 \o (IF Raises(res) THEN <<ErrorFetching>>
                     ELSE LoopMessages(Tail(results)))

\* fetch_recent_decisions
FetchMessages(p) ==
    IF ~env.token THEN <<TokenRequired>>
    ELSE IF ~p.ok
    THEN <<IF p.failure = "timeout" THEN RequestTimedOut ELSE ErrorFetching>>
    ELSE LoopMessages(p.results)

ErrorLoadingJsonData == "[!] Error loading existing JSON data"

NoExistingData == "[*] No existing data found - this appears to be a fresh start"

\* load_existing_data: a file that is not there is passed over without a
\* word.
LoadMessages(files, csv_filename, json_filename) ==
    (IF files[json_filename].exists /\ ~files[json_filename].valid
     THEN <<ErrorLoadingJsonData>> ELSE <<>>)
        \o (IF LoadExistingData(files, csv_filename, json_filename) = {}
            THEN <<NoExistingData>> ELSE <<>>)

ErrorLoadingJson == "[!] Error loading existing JSON"

\* save_to_json, reading the file it is about to rewrite.
SaveJsonMessages(files, filename) ==
    IF files[filename].exists /\ ~files[filename].valid
    THEN <<ErrorLoadingJson>> ELSE <<>>

\* main
KeyNotFound == "[!] ERROR: GOOGLE_API_KEY not found in environment variables"

TokenNotFound ==
    "[!] ERROR: COURTLISTENER_TOKEN not found in environment variables"

NoClient == "[!] ERROR: Could not initialize Gemini client"

NoDecisions == "[!] No decisions found"

AllAnalyzed == "[*] All recent decisions have already been analyzed"

Success ==
    "[SUCCESS] All data saved to supreme_court_decisions.csv and supreme_court_decisions.json"

\* An exception that nothing catches ends main with the interpreter's
\* traceback.
Traceback == "Traceback (most recent call last):"

CredentialMessages ==
    IF ~env.key THEN <<KeyNotFound>>
    ELSE IF ~env.token THEN <<TokenNotFound>>
    ELSE IF ~client THEN <<NoClient>>
    ELSE <<>>

-----------------------------------------------------------------------------
(* main().                                                                 *)

Processes == {1, 2}

\* A process that has not called main yet.
IdleRun ==
    [pc |-> "idle", outcome |-> "running", decisions |-> <<>>,
     existing_ids |-> {}, new_decisions |-> <<>>,
     analyzed_decisions |-> <<>>, existing_data |-> <<>>]

NoPage == [ok |-> FALSE, failure |-> "none", results |-> <<>>]

NoLocals ==
    /\ decisions' = <<>>
    /\ existing_ids' = {}
    /\ new_decisions' = <<>>
    /\ i' = 0
    /\ analyzed_decisions' = <<>>

Ended(how) == pc' = "done" /\ outcome' = how

\* Faulty variant of MainStart: the client is not looked at.
MainStartNoClientCheck ==
    /\ pc \in {"idle", "done"}
    /\ start' = fs
    /\ prev' = [page |-> page, outcome |-> outcome]
    /\ page' = NoPage
    /\ events' = <<>>
    /\ NoLocals
    /\ IF ~env.key \/ ~env.token
       THEN Ended("no_credentials")
       ELSE pc' = "fetch" /\ outcome' = "running"
    /\ UNCHANGED <<config, apl, fs, served, classified>>
    /\ printed' = CredentialMessages
    /\ UNCHANGED runs

\* main is started; it returns at once when a credential or the client is
\* missing.
MainStart ==
    /\ pc \in {"idle", "done"}
    /\ start' = fs
    /\ prev' = [page |-> page, outcome |-> outcome]
    /\ page' = NoPage
    /\ events' = <<>>
    /\ NoLocals
    /\ IF ~env.key \/ ~env.token \/ ~client
       THEN Ended("no_credentials")
       ELSE pc' = "fetch" /\ outcome' = "running"
    /\ printed' = CredentialMessages
    /\ UNCHANGED <<config, apl, fs, served, classified>>
    /\ UNCHANGED runs

\* decisions = fetch_recent_decisions(days_back=8); if not decisions: return
Fetch ==
    /\ pc = "fetch"
    /\ \E p \in Pages(MaxServed - served) \cup MainFailures :
           /\ page' = p
           /\ served' = served + Len(p.results)
           /\ decisions' = FetchRecentDecisions(p)
           /\ printed' = FetchMessages(p)
                             \o (IF FetchRecentDecisions(p) = <<>>
                                 THEN <<NoDecisions>> ELSE <<>>)
    /\ events' = Append(events, <<"query", 0>>)
    /\ IF decisions' = <<>>
       THEN Ended("no_decisions")
       ELSE pc' = "load" /\ UNCHANGED outcome
    /\ UNCHANGED <<config, apl, fs, existing_ids, new_decisions, i,
                   analyzed_decisions, prev, start, classified>>
    /\ UNCHANGED runs

\* Faulty variant of Deduplicate: an empty batch goes on to the saves.
DeduplicateSavesEmptyBatch ==
    /\ pc = "load"
    /\ existing_ids' = LoadExistingData(fs, LoadCsvDefault, LoadJsonDefault)
    /\ new_decisions' =
           SelectSeq(decisions,
                     LAMBDA d : PyStr(d.opinion_id) \notin existing_ids')
    /\ events' = Append(events, <<"load", Cardinality(existing_ids')>>)
    /\ IF new_decisions' = <<>>
       THEN pc' = "save_csv" /\ UNCHANGED <<i, outcome>>
       ELSE pc' = "classify" /\ i' = 1 /\ UNCHANGED outcome
    /\ UNCHANGED <<config, apl, fs, served, decisions, analyzed_decisions,
                   page, prev, start, classified>>
    /\ printed' = LoadMessages(fs, LoadCsvDefault, LoadJsonDefault)
                      \o (IF new_decisions' = <<>> THEN <<AllAnalyzed>>
                          ELSE <<>>)
    /\ UNCHANGED runs

\* existing_ids = load_existing_data(); the filter; if not new_decisions:
\* return
Deduplicate ==
    /\ pc = "load"
    /\ existing_ids' = LoadExistingData(fs, LoadCsvDefault, LoadJsonDefault)
    /\ new_decisions' =
           SelectSeq(decisions,
                     LAMBDA d : PyStr(d.opinion_id) \notin existing_ids')
    /\ events' = Append(events, <<"load", Cardinality(existing_ids')>>)
    /\ IF new_decisions' = <<>>
       THEN Ended("nothing_new") /\ UNCHANGED i
       ELSE pc' = "classify" /\ i' = 1 /\ UNCHANGED outcome
    /\ UNCHANGED <<config, apl, fs, served, decisions, analyzed_decisions,
                   page, prev, start, classified>>
    /\ printed' = LoadMessages(fs, LoadCsvDefault, LoadJsonDefault)
                      \o (IF new_decisions' = <<>> THEN <<AllAnalyzed>>
                          ELSE <<>>)
    /\ UNCHANGED runs

\* The call of analyze_political_leaning for record i.
Classify ==
    /\ pc = "classify"
    /\ apl.pc = "idle"
    /\ apl' = AplCalled(new_decisions[i].case_name, new_decisions[i].plain_text)
    /\ classified' = Append(classified, PyStr(new_decisions[i].opinion_id))
    /\ events' = Append(events, <<"classify", i>>)
    /\ pc' = "classifying"
    /\ UNCHANGED <<config, fs, outcome, served, locals, page, prev, start>>
    /\ printed' = <<>>
    /\ UNCHANGED runs

\* Faulty variant of Collect: the pacing delay follows the last call, too.
CollectPacesAfterLast ==
    /\ pc = "classifying"
    /\ apl.pc = "returned"
    /\ analyzed_decisions' =
           Append(analyzed_decisions, Analyzed(new_decisions[i], apl.result))
    /\ apl' = AplIdle
    /\ pc' = "pace"
    /\ UNCHANGED <<config, fs, outcome, served, decisions, existing_ids,
                   new_decisions, i, history>>
    /\ printed' = <<>>
    /\ UNCHANGED runs

\* Faulty variant of Collect: the record is put in front of the batch.
CollectPrepends ==
    /\ pc = "classifying"
    /\ apl.pc = "returned"
    /\ analyzed_decisions' =
           <<Analyzed(new_decisions[i], apl.result)>> \o analyzed_decisions
    /\ apl' = AplIdle
    /\ pc' = IF i < Len(new_decisions) THEN "pace" ELSE "save_csv"
    /\ UNCHANGED <<config, fs, outcome, served, decisions, existing_ids,
                   new_decisions, i, history>>
    /\ printed' = <<>>
    /\ UNCHANGED runs

\* Faulty variant of Collect: the saves follow the first record.
CollectSavesAfterFirst ==
    /\ pc = "classifying"
    /\ apl.pc = "returned"
    /\ analyzed_decisions' =
           Append(analyzed_decisions, Analyzed(new_decisions[i], apl.result))
    /\ apl' = AplIdle
    /\ pc' = "save_csv"
    /\ UNCHANGED <<config, fs, outcome, served, decisions, existing_ids,
                   new_decisions, i, history>>
    /\ printed' = <<>>
    /\ UNCHANGED runs

\* Faulty variant of Collect: the loop does not go on to the next record or
\* to the saves.
CollectStaysPut ==
    /\ pc = "classifying"
    /\ apl.pc = "returned"
    /\ analyzed_decisions' =
           Append(analyzed_decisions, Analyzed(new_decisions[i], apl.result))
    /\ apl' = AplIdle
    /\ pc' = "classifying"
    /\ UNCHANGED <<config, fs, outcome, served, decisions, existing_ids,
                   new_decisions, i, history>>
    /\ printed' = <<>>
    /\ UNCHANGED runs

\* The call has returned: the record is appended, and the loop goes on with
\* the pacing delay or ends.
Collect ==
    /\ pc = "classifying"
    /\ apl.pc = "returned"
    /\ analyzed_decisions' =
           Append(analyzed_decisions, Analyzed(new_decisions[i], apl.result))
    /\ apl' = AplIdle
    /\ pc' = IF i < Len(new_decisions) THEN "pace" ELSE "save_csv"
    /\ UNCHANGED <<config, fs, outcome, served, decisions, existing_ids,
                   new_decisions, i, history>>
    /\ printed' = <<>>
    /\ UNCHANGED runs

\* time.sleep(7), then the next iteration.
Pace ==
    /\ pc = "pace"
    /\ events' = Append(events, <<"pace", i>>)
    /\ i' = i + 1
    /\ pc' = "classify"
    /\ UNCHANGED <<config, apl, fs, outcome, served, decisions, existing_ids,
                   new_decisions, analyzed_decisions, page, prev, start,
                   classified>>
    /\ printed' = <<>>
    /\ UNCHANGED runs

\* save_to_csv(analyzed_decisions) returns.
SaveCsv ==
    /\ pc = "save_csv"
    /\ fs' = SaveToCsv(fs, analyzed_decisions, SaveCsvDefault)
    /\ events' = Append(events, <<"csv", Len(analyzed_decisions)>>)
    /\ pc' = "save_json"
    /\ UNCHANGED <<config, apl, outcome, served, locals, page, prev, start,
                   classified>>
    /\ printed' = <<>>
    /\ UNCHANGED runs

\* Faulty variant of SaveCsvFails: the exception of save_to_csv is passed
\* over and main goes on to save_to_json.
SaveCsvFailsUnnoticed ==
    /\ pc = "save_csv"
    /\ \/ UNCHANGED fs
       \/ \E n \in 0..(Len(CsvWritten(fs, analyzed_decisions, SaveCsvDefault)) - 1) :
              fs' = [fs EXCEPT ![SaveCsvDefault] =
                        CsvAfter(fs, analyzed_decisions, SaveCsvDefault, n)]
    /\ pc' = "save_json"
    /\ UNCHANGED <<config, apl, outcome, served, locals, history>>
    /\ printed' = <<>>
    /\ UNCHANGED runs

\* save_to_csv raises: open failed, or a write failed after the first n
\* lines, and main ends with the exception.
SaveCsvFails ==
    /\ pc = "save_csv"
    /\ \/ UNCHANGED fs
       \/ \E n \in 0..(Len(CsvWritten(fs, analyzed_decisions, SaveCsvDefault)) - 1) :
              fs' = [fs EXCEPT ![SaveCsvDefault] =
                        CsvAfter(fs, analyzed_decisions, SaveCsvDefault, n)]
    /\ Ended("crashed")
    /\ UNCHANGED <<config, apl, served, locals, history>>
    /\ printed' = <<Traceback>>
    /\ UNCHANGED runs

\* save_to_json(analyzed_decisions) returns, and main prints its summary.
SaveJson ==
    /\ pc = "save_json"
    /\ fs' = SaveToJson(fs, analyzed_decisions, SaveJsonDefault)
    /\ events' = Append(events, <<"json", Len(analyzed_decisions)>>)
    /\ Ended("saved")
    /\ UNCHANGED <<config, apl, served, locals, page, prev, start, classified>>
    /\ printed' = SaveJsonMessages(fs, SaveJsonDefault) \o <<Success>>
    /\ UNCHANGED runs

\* save_to_json raises: open for writing failed, or json.dump failed after
\* the first n items, which leaves a file that cannot be parsed.
SaveJsonFails ==
    /\ pc = "save_json"
    /\ \/ UNCHANGED fs
       \/ \E n \in 0..(Len(AllData(fs, analyzed_decisions, SaveJsonDefault)) - 1) :
              fs' = [fs EXCEPT ![SaveJsonDefault] =
                        Unparseable(SubSeq(AllData(fs, analyzed_decisions,
                                                    SaveJsonDefault), 1, n))]
    /\ Ended("crashed")
    /\ UNCHANGED <<config, apl, served, locals, history>>
    /\ printed' = SaveJsonMessages(fs, SaveJsonDefault) \o <<Traceback>>
    /\ UNCHANGED runs

\* The module is loaded: the client exists only if the key is set and
\* genai.Client did not raise.
Init ==
    /\ env \in [key : BOOLEAN, token : BOOLEAN]
    /\ client \in BOOLEAN
    /\ client => env.key
    /\ caller = "main"
    /\ apl = AplIdle
    /\ fs \in InitialFiles
    /\ pc = "idle"
    /\ outcome = "running"
    /\ served = 0
    /\ decisions = <<>>
    /\ existing_ids = {}
    /\ new_decisions = <<>>
    /\ i = 0
    /\ analyzed_decisions = <<>>
    /\ page = NoPage
    /\ prev = [page |-> NoPage, outcome |-> "running"]
    /\ start = fs
    /\ classified = <<>>
    /\ events = <<>>
    /\ printed = <<>>
    /\ runs = [p \in Processes |-> IdleRun]

Next ==
    \/ MainStart
    \/ Fetch
    \/ Deduplicate
    \/ Classify
    \/ AplGuard
    \/ AplAttempt
    \/ AplCooldown
    \/ Collect
    \/ Pace
    \/ SaveCsv
    \/ SaveCsvFails
    \/ SaveJson
    \/ SaveJsonFails

Spec == Init /\ [][Next]_vars

-----------------------------------------------------------------------------
(* Version A, src/supreme_court_analyzer.py: one tabular file, read and    *)
(* appended to under the same name, and case_name as the key.              *)

\* [:10]
AnalyzerLimit == 10

\* [:5000]
AnalyzerTextBudget == 5000

\* len(decision_text) < 100
AnalyzerMinTextLen == 100

\* len("No text available")
PlaceholderLen == 17

CR == "\r"

\* The file of load_existing_data and of save_to_csv.
AnalyzerCsv == "supreme_court_decisions.csv"

AnalyzerFieldnames == <<<<"case_name">>, <<"classification">>>>

\* The raw results of Version A: case_name absent, null, 'Roe v. Wade' or
\* 'In\rre'; plain_text '' (or absent), short, long enough, or null.
AnalyzerResults ==
    {[case_name |-> n, plain_text |-> TextOfLen(t)] :
         n \in {Missing, Null, Str(<<"Roe v. Wade">>),
                Str(<<"In", CR, "re">>)},
         t \in {0, AnalyzerMinTextLen - 1, AnalyzerMinTextLen}}
        \cup {[case_name |-> Str(<<"Roe v. Wade">>),
               plain_text |-> [isNone |-> TRUE, len |-> 0]]}

AnalyzerAnswers ==
    {[ok |-> TRUE, failure |-> "none", results |-> rs] :
         rs \in SeqsUpTo(AnalyzerResults, MaxPage)}
        \cup MainFailures

\* What model.generate_content may do.
AnalyzerRemote ==
    {TextOutcome(Join(<<Prefix("Classification") \o <<" ", "Liberal">>,
                        Prefix("Reasoning") \o <<" ", "r1">>>>, LF)),
     RaiseOutcome(<<"503", " ", "Service Unavailable">>)}

\* One element of decisions.
AnalyzerDecision(result) ==
    [case_name  |-> IF result.case_name.kind = "missing"
                    THEN Str(<<"Unknown Case">>) ELSE result.case_name,
     plain_text |-> TextOfLen(IF result.plain_text.len > AnalyzerTextBudget
                              THEN AnalyzerTextBudget
                              ELSE result.plain_text.len)]

\* fetch_recent_decisions of Version A: whatever is raised, the slice of a
\* null plain_text included, gives [].
AnalyzerFetchRecentDecisions(p) ==
    LET results == SubSeq(p.results, 1,
                          IF Len(p.results) > AnalyzerLimit
                          THEN AnalyzerLimit ELSE Len(p.results))
    IN  IF ~p.ok \/ \E k \in 1..Len(results) : results[k].plain_text.isNone
        THEN <<>>
        ELSE [k \in 1..Len(results) |-> AnalyzerDecision(results[k])]

\* What csv.DictWriter writes for a value: '' for None.
CsvText(v) == IF IsNone(v) THEN <<>> ELSE v.s

\* What a file opened for reading without newline='' gives for what was
\* written: '\r\n' and '\r' are read as '\n'.
RECURSIVE UniversalNewlines(_)
UniversalNewlines(s) ==
    IF s = <<>> THEN <<>>
    ELSE IF s[1] = CR
    THEN <<LF>> \o UniversalNewlines(
                       IF Len(s) > 1 /\ s[2] = LF
                       THEN SubSeq(s, 3, Len(s)) ELSE Tail(s))
    ELSE <<s[1]>> \o UniversalNewlines(Tail(s))

\* load_existing_data of Version A: csv.DictReader takes the first row of
\* the file for the field names.
AnalyzerLoadExistingData(files, filename) ==
    IF files[filename].exists
    THEN {UniversalNewlines(Tail(files[filename].content)[k][1]) :
              k \in 1..(Len(files[filename].content) - 1)}
    ELSE {}

\* row['case_name'] raises KeyError: the first row of the file is not the
\* header, and there is a row after it.
AnalyzerLoadRaises(files, filename) ==
    /\ files[filename].exists
    /\ Len(files[filename].content) >= 2
    /\ files[filename].content[1] # AnalyzerFieldnames

\* The rows save_to_csv of Version A writes, the header first in a new file.
AnalyzerCsvWritten(files, decisions_data, filename) ==
    (IF files[filename].exists THEN <<>> ELSE <<AnalyzerFieldnames>>)
        \o [k \in 1..Len(decisions_data) |->
                <<CsvText(decisions_data[k].case_name),
                  decisions_data[k].classification>>]

\* The file after n of these rows.
AnalyzerCsvAfter(files, decisions_data, filename, n) ==
    [files EXCEPT ![filename] =
        File((IF files[filename].exists THEN files[filename].content
              ELSE <<>>)
                 \o SubSeq(AnalyzerCsvWritten(files, decisions_data, filename),
                           1, n))]

\* decision_text = decision['plain_text'] if decision['plain_text'] else
\* "No text available"
DecisionTextLen(decision) ==
    IF decision.plain_text.len = 0 THEN PlaceholderLen
    ELSE decision.plain_text.len

AnalyzerInsufficient ==
    Result(<<"Insufficient text">>, <<"N/A">>, <<"Not enough text to analyze">>,
           <<>>, <<>>, <<"No text available for summary">>)

\* if not decision_text or len(decision_text) < 100
AnalyzerTooShort(text_len) == text_len = 0 \/ text_len < AnalyzerMinTextLen

NoNewDecisions == "No new decisions found"

AlreadyAnalyzed == "All recent decisions have already been analyzed"

ErrorFetchingDecisions == "Error fetching decisions"

ErrorAnalyzingWithGemini == "Error analyzing with Gemini"

\* main is called; served counts the calls.
AnalyzerStart ==
    /\ pc \in {"idle", "done"}
    /\ served < MaxServed
    /\ served' = served + 1
    /\ start' = fs
    /\ prev' = [page |-> page, outcome |-> outcome]
    /\ events' = <<>>
    /\ NoLocals
    /\ pc' = "fetch"
    /\ outcome' = "running"
    /\ printed' = <<>>
    /\ UNCHANGED <<config, apl, fs, page, classified, runs>>

\* decisions = fetch_recent_decisions(days_back=30); if not decisions: return
AnalyzerFetch ==
    /\ pc = "fetch"
    /\ decisions' = AnalyzerFetchRecentDecisions(page)
    /\ events' = Append(events, <<"query", 0>>)
    /\ IF decisions' = <<>>
       THEN Ended("no_decisions")
       ELSE pc' = "load" /\ UNCHANGED outcome
    /\ printed' = (IF ~page.ok \/ (page.results # <<>> /\ decisions' = <<>>)
                   THEN <<ErrorFetchingDecisions>> ELSE <<>>)
                      \o (IF decisions' = <<>> THEN <<NoNewDecisions>>
                          ELSE <<>>)
    /\ UNCHANGED <<config, apl, fs, served, existing_ids, new_decisions, i,
                   analyzed_decisions, page, prev, start, classified, runs>>

\* existing_cases = load_existing_data(); the filter; if not new_decisions:
\* return
AnalyzerLoad ==
    /\ pc = "load"
    /\ ~AnalyzerLoadRaises(fs, AnalyzerCsv)
    /\ existing_ids' = AnalyzerLoadExistingData(fs, AnalyzerCsv)
    /\ new_decisions' =
           SelectSeq(decisions,
                     LAMBDA d : \/ IsNone(d.case_name)
                                \/ d.case_name.s \notin existing_ids')
    /\ IF new_decisions' = <<>>
       THEN Ended("nothing_new")
       ELSE pc' = "classify" /\ UNCHANGED outcome
    /\ printed' = IF new_decisions' = <<>> THEN <<AlreadyAnalyzed>> ELSE <<>>
    /\ UNCHANGED <<config, apl, fs, served, decisions, i, analyzed_decisions,
                   history, runs>>

\* load_existing_data raises; main catches nothing.
AnalyzerLoadFails ==
    /\ pc = "load"
    /\ AnalyzerLoadRaises(fs, AnalyzerCsv)
    /\ Ended("crashed")
    /\ printed' = <<Traceback>>
    /\ UNCHANGED <<config, apl, fs, served, locals, history, runs>>

\* One iteration of the loop of main, analyze_political_leaning included.
AnalyzerClassify ==
    /\ pc = "classify"
    /\ i' = i + 1
    /\ LET decision == new_decisions[i']
           record(result) ==
               [case_name |-> decision.case_name,
                classification |-> result.classification]
       IN  IF AnalyzerTooShort(DecisionTextLen(decision))
           THEN /\ analyzed_decisions' =
                       Append(analyzed_decisions, record(AnalyzerInsufficient))
                /\ printed' = <<>>
                /\ UNCHANGED events
           ELSE \E o \in AnalyzerRemote :
                    /\ analyzed_decisions' =
                           Append(analyzed_decisions,
                                  record(IF o.kind = "text"
                                         THEN ParseResponse(o.text)
                                         ELSE ErrorResult(ErrorStr(o))))
                    /\ printed' = IF o.kind = "text" THEN <<>>
                                  ELSE <<ErrorAnalyzingWithGemini>>
                    /\ events' = Append(events, <<"remote", i'>>)
    /\ classified' = Append(classified, CsvText(new_decisions[i'].case_name))
    /\ pc' = IF i' < Len(new_decisions) THEN "classify" ELSE "save"
    /\ UNCHANGED <<config, apl, fs, outcome, served, decisions, existing_ids,
                   new_decisions, page, prev, start, runs>>

\* save_to_csv(analyzed_decisions) returns.
AnalyzerSave ==
    /\ pc = "save"
    /\ fs' = AnalyzerCsvAfter(fs, analyzed_decisions, AnalyzerCsv,
                              Len(AnalyzerCsvWritten(fs, analyzed_decisions,
                                                     AnalyzerCsv)))
    /\ Ended("saved")
    /\ printed' = <<>>
    /\ UNCHANGED <<config, apl, served, locals, history, runs>>

\* save_to_csv raises, after some of its rows or none; main catches
\* nothing.
AnalyzerSaveFails ==
    /\ pc = "save"
    /\ \/ UNCHANGED fs
       \/ \E n \in 0..(Len(AnalyzerCsvWritten(fs, analyzed_decisions,
                                              AnalyzerCsv)) - 1) :
              fs' = AnalyzerCsvAfter(fs, analyzed_decisions, AnalyzerCsv, n)
    /\ Ended("crashed")
    /\ printed' = <<Traceback>>
    /\ UNCHANGED <<config, apl, served, locals, history, runs>>

\* The key is set, or the module exits when it is loaded; every run gets
\* the same answer of the source.
AnalyzerInit ==
    /\ env = [key |-> TRUE, token |-> FALSE]
    /\ client = TRUE
    /\ caller = "analyzer"
    /\ apl = AplIdle
    /\ fs = [p \in Paths |-> Absent]
    /\ pc = "idle"
    /\ outcome = "running"
    /\ served = 0
    /\ decisions = <<>>
    /\ existing_ids = {}
    /\ new_decisions = <<>>
    /\ i = 0
    /\ analyzed_decisions = <<>>
    /\ page \in AnalyzerAnswers
    /\ prev = [page |-> NoPage, outcome |-> "running"]
    /\ start = fs
    /\ classified = <<>>
    /\ events = <<>>
    /\ printed = <<>>
    /\ runs = [p \in Processes |-> IdleRun]

AnalyzerNext ==
    \/ AnalyzerStart
    \/ AnalyzerFetch
    \/ AnalyzerLoad
    \/ AnalyzerLoadFails
    \/ AnalyzerClassify
    \/ AnalyzerSave
    \/ AnalyzerSaveFails

AnalyzerSpec == AnalyzerInit /\ [][AnalyzerNext]_vars

-----------------------------------------------------------------------------
(* Two processes run main at the same time, on the same files. Each step   *)
(* is one of main's accesses to the source, to the service or to a file.   *)

\* What analyze_political_leaning may return for a decision, the retry
\* included.
ClassifyResults(decision) ==
    IF ~client THEN {NoClientResult}
    ELSE IF TooShort(decision.plain_text) THEN {InsufficientResult}
    ELSE {IF o.kind = "text" THEN ParseResponse(o.text)
          ELSE ErrorResult(ErrorStr(o)) : o \in Remote}

\* decisions = fetch_recent_decisions(days_back=8); if not decisions: return
RunFetch(p) ==
    /\ runs[p].pc = "idle"
    /\ env.key /\ env.token /\ client
    /\ \E answer \in Pages(MaxShared) \cup MainFailures :
           runs' = [runs EXCEPT
                       ![p].decisions = FetchRecentDecisions(answer),
                       ![p].pc = IF FetchRecentDecisions(answer) = <<>>
                                 THEN "done" ELSE "load",
                       ![p].outcome = IF FetchRecentDecisions(answer) = <<>>
                                      THEN "no_decisions" ELSE "running"]
    /\ UNCHANGED <<config, apl, mainVars, printed>>

\* existing_ids = load_existing_data(); the filter; if not new_decisions:
\* return
RunLoad(p) ==
    /\ runs[p].pc = "load"
    /\ LET ids == LoadExistingData(fs, LoadCsvDefault, LoadJsonDefault)
           new == SelectSeq(runs[p].decisions,
                            LAMBDA d : PyStr(d.opinion_id) \notin ids)
       IN  runs' = [runs EXCEPT
                       ![p].existing_ids = ids,
                       ![p].new_decisions = new,
                       ![p].pc = IF new = <<>> THEN "done" ELSE "classify",
                       ![p].outcome = IF new = <<>> THEN "nothing_new"
                                      ELSE "running"]
    /\ UNCHANGED <<config, apl, mainVars, printed>>

\* One iteration of the loop over new_decisions.
RunClassify(p) ==
    /\ runs[p].pc = "classify"
    /\ LET k        == Len(runs[p].analyzed_decisions) + 1
           decision == runs[p].new_decisions[k]
       IN  /\ \E result \in ClassifyResults(decision) :
                  runs' = [runs EXCEPT
                              ![p].analyzed_decisions =
                                  Append(@, Analyzed(decision, result)),
                              ![p].pc =
                                  IF k < Len(runs[p].new_decisions)
                                  THEN "classify" ELSE "save_csv"]
           /\ classified' = Append(classified, PyStr(decision.opinion_id))
    /\ UNCHANGED <<config, apl, fs, pc, outcome, served, locals, page, prev,
                   start, events, printed>>

\* save_to_csv(analyzed_decisions)
RunSaveCsv(p) ==
    /\ runs[p].pc = "save_csv"
    /\ fs' = SaveToCsv(fs, runs[p].analyzed_decisions, SaveCsvDefault)
    /\ runs' = [runs EXCEPT ![p].pc = "json_load"]
    /\ UNCHANGED <<config, apl, pc, outcome, served, locals, history, printed>>

\* save_to_json, up to all_data = existing_data + decisions_data.
RunJsonLoad(p) ==
    /\ runs[p].pc = "json_load"
    /\ runs' = [runs EXCEPT
                   ![p].existing_data =
                       IF fs[SaveJsonDefault].exists /\ fs[SaveJsonDefault].valid
                       THEN fs[SaveJsonDefault].content ELSE <<>>,
                   ![p].pc = "json_write"]
    /\ UNCHANGED <<config, apl, mainVars, printed>>

\* Faulty variant of RunJsonWrite: the file is read again at the moment of
\* the rewrite, as if the load and the rewrite were one locked step.
RunJsonWriteRereads(p) ==
    /\ runs[p].pc = "json_write"
    /\ fs' = SaveToJson(fs, runs[p].analyzed_decisions, SaveJsonDefault)
    /\ runs' = [runs EXCEPT ![p].pc = "done", ![p].outcome = "saved"]
    /\ UNCHANGED <<config, apl, pc, outcome, served, locals, history, printed>>

\* save_to_json, from open(filename, 'w') on.
RunJsonWrite(p) ==
    /\ runs[p].pc = "json_write"
    /\ fs' = [fs EXCEPT ![SaveJsonDefault] =
                 File(runs[p].existing_data \o runs[p].analyzed_decisions)]
    /\ runs' = [runs EXCEPT ![p].pc = "done", ![p].outcome = "saved"]
    /\ UNCHANGED <<config, apl, pc, outcome, served, locals, history, printed>>

TwoRunsInit ==
    /\ env = [key |-> TRUE, token |-> TRUE]
    /\ client = TRUE
    /\ caller = "main"
    /\ apl = AplIdle
    /\ fs = [p \in Paths |-> Absent]
    /\ pc = "idle"
    /\ outcome = "running"
    /\ served = 0
    /\ decisions = <<>>
    /\ existing_ids = {}
    /\ new_decisions = <<>>
    /\ i = 0
    /\ analyzed_decisions = <<>>
    /\ page = NoPage
    /\ prev = [page |-> NoPage, outcome |-> "running"]
    /\ start = fs
    /\ classified = <<>>
    /\ events = <<>>
    /\ printed = <<>>
    /\ runs = [p \in Processes |-> IdleRun]

TwoRunsNext ==
    \E p \in Processes :
        \/ RunFetch(p)
        \/ RunLoad(p)
        \/ RunClassify(p)
        \/ RunSaveCsv(p)
        \/ RunJsonLoad(p)
        \/ RunJsonWrite(p)

TwoRunsSpec == TwoRunsInit /\ [][TwoRunsNext]_vars

-----------------------------------------------------------------------------
(* One run of main, with whatever earlier runs left in the four files.     *)

LeftFiles ==
    {[p \in Paths |->
         IF p = LoadCsvDefault THEN c
         ELSE IF p = LoadJsonDefault THEN j
         ELSE IF p = SaveCsvDefault THEN sc
         ELSE sj] :
       c  \in {Absent, File(<<Fieldnames, CsvRow(OldRecord)>>)},
       j  \in {Absent, Unparseable(<<>>), File(<<OldRecord>>)},
       sc \in {Absent, File(<<Fieldnames, CsvRow(OldRecord)>>)},
       sj \in {Absent, Unparseable(<<>>), File(<<OldRecord>>)}}

RunInit ==
    /\ env \in [key : BOOLEAN, token : BOOLEAN]
    /\ client \in BOOLEAN
    /\ client => env.key
    /\ caller = "main"
    /\ apl = AplIdle
    /\ fs \in LeftFiles
    /\ pc = "idle"
    /\ outcome = "running"
    /\ served = 0
    /\ decisions = <<>>
    /\ existing_ids = {}
    /\ new_decisions = <<>>
    /\ i = 0
    /\ analyzed_decisions = <<>>
    /\ page = NoPage
    /\ prev = [page |-> NoPage, outcome |-> "running"]
    /\ start = fs
    /\ classified = <<>>
    /\ events = <<>>
    /\ printed = <<>>
    /\ runs = [p \in Processes |-> IdleRun]

\* `if __name__ == "__main__": main()`: main is called once.
RunMain ==
    /\ pc = "idle"
    /\ MainStart

RunNext ==
    \/ RunMain
    \/ Fetch
    \/ Deduplicate
    \/ Classify
    \/ AplGuard
    \/ AplAttempt
    \/ AplCooldown
    \/ Collect
    \/ Pace
    \/ SaveCsv
    \/ SaveCsvFails
    \/ SaveJson
    \/ SaveJsonFails

\* Every remote call and every file operation comes back, normally or with
\* an exception, and every time.sleep ends: a run that has been started
\* keeps taking its next step.
RunFairSpec ==
    /\ RunInit
    /\ [][RunNext]_vars
    /\ WF_vars(Fetch)
    /\ WF_vars(Deduplicate)
    /\ WF_vars(Classify)
    /\ WF_vars(AplGuard)
    /\ WF_vars(AplAttempt)
    /\ WF_vars(AplCooldown)
    /\ WF_vars(Collect)
    /\ WF_vars(Pace)
    /\ WF_vars(SaveCsv)
    /\ WF_vars(SaveJson)

-----------------------------------------------------------------------------
(* The classification client called directly, with any client state, any   *)
(* text and a service that may answer with any short response.             *)

CallAnalyze ==
    /\ apl.pc = "idle"
    /\ \E c \in CaseNames, t \in DirectTexts : apl' = AplCalled(c, t)
    /\ UNCHANGED <<config, mainVars>>
    /\ printed' = <<>>
    /\ UNCHANGED runs

\* The caller takes the returned tuple.
TakeResult ==
    /\ apl.pc = "returned"
    /\ apl' = AplIdle
    /\ UNCHANGED <<config, mainVars>>
    /\ printed' = <<>>
    /\ UNCHANGED runs

ClassifyInit ==
    /\ env \in {[key |-> TRUE, token |-> TRUE]}
    /\ client \in BOOLEAN
    /\ caller = "direct"
    /\ apl = AplIdle
    /\ fs = [p \in Paths |-> Absent]
    /\ pc = "idle"
    /\ outcome = "running"
    /\ served = 0
    /\ decisions = <<>>
    /\ existing_ids = {}
    /\ new_decisions = <<>>
    /\ i = 0
    /\ analyzed_decisions = <<>>
    /\ page = NoPage
    /\ prev = [page |-> NoPage, outcome |-> "running"]
    /\ start = fs
    /\ classified = <<>>
    /\ events = <<>>
    /\ printed = <<>>
    /\ runs = [p \in Processes |-> IdleRun]

ClassifyNext ==
    \/ CallAnalyze
    \/ AplGuard
    \/ AplAttempt
    \/ AplCooldown
    \/ TakeResult

ClassifySpec == ClassifyInit /\ [][ClassifyNext]_vars

ClassifyFairInit ==
    /\ env \in {[key |-> TRUE, token |-> TRUE]}
    /\ client \in BOOLEAN
    /\ caller = "retry"
    /\ apl = AplIdle
    /\ fs = [p \in Paths |-> Absent]
    /\ pc = "idle"
    /\ outcome = "running"
    /\ served = 0
    /\ decisions = <<>>
    /\ existing_ids = {}
    /\ new_decisions = <<>>
    /\ i = 0
    /\ analyzed_decisions = <<>>
    /\ page = NoPage
    /\ prev = [page |-> NoPage, outcome |-> "running"]
    /\ start = fs
    /\ classified = <<>>
    /\ events = <<>>
    /\ printed = <<>>
    /\ runs = [p \in Processes |-> IdleRun]

\* Direct calls when every remote call comes back with one of its outcomes
\* and every time.sleep ends: a call that has been entered keeps taking its
\* next step.
ClassifyFairSpec ==
    /\ ClassifyFairInit
    /\ [][ClassifyNext]_vars
    /\ WF_vars(AplGuard)
    /\ WF_vars(AplAttempt)
    /\ WF_vars(AplCooldown)

-----------------------------------------------------------------------------
(* fetch_recent_decisions called on its own, with or without a token, on   *)
(* any answer of the decision source and of the nested lookups.            *)

\* Results that differ in where an author can be found.
AuthorCases ==
    {[id |-> 1, case_name |-> Str(<<"Roe v. Wade">>), absolute_url |-> Missing,
      author_str |-> a, per_curiam |-> m, plain_text |-> TextOfLen(300),
      cluster |-> c, detail |-> DetailWithout("status")] :
        a \in {Missing, Str(<<>>), Str(<<" ">>), Str(<<" ", "Alito", " ">>)},
        m \in BOOLEAN,
        c \in {ClusterWithout("none"), ClusterWithout("status")}
                 \cup {ClusterData(Missing, ca, j, cm) :
                           ca \in {Missing, Str(<<>>), Str(<<"Thomas">>)},
                           j \in {Missing, Str(<<" ">>),
                                  Str(<<"Roberts", ",", " ", "Kagan">>)},
                           cm \in BOOLEAN}}

\* What the cluster lookup may give.
ClusterOutcomes ==
    {ClusterWithout(k) : k \in {"none", "timeout", "raise", "status", "null"}}
        \cup {ClusterData(Missing, Missing, Missing, FALSE),
              ClusterData(Str(<<"Roe v. Wade">>), Null, Str(<<"Roberts">>), TRUE),
              ClusterData(Null, Str(<<>>), Null, FALSE)}

\* What the detail lookup may give.
DetailOutcomes ==
    {DetailWithout(k) : k \in {"timeout", "raise", "status", "null"}}
        \cup {DetailData(TextOfLen(300)), DetailData(TextOfLen(0)),
              DetailData(NoText)}

\* Results that differ in what their nested lookups give: the cluster
\* lookup of a result with text, the detail lookup of a result without.
NestedCases ==
    {[id |-> 1, case_name |-> Str(<<"Roe v. Wade">>), absolute_url |-> Missing,
      author_str |-> a, per_curiam |-> FALSE, plain_text |-> TextOfLen(300),
      cluster |-> c, detail |-> DetailWithout("status")] :
        a \in {Str(<<>>), Str(<<"Alito">>)}, c \in ClusterOutcomes}
    \cup
    {[id |-> n, case_name |-> Str(<<"Unknown Case">>), absolute_url |-> Missing,
      author_str |-> Str(<<"Alito">>), per_curiam |-> FALSE,
      plain_text |-> TextOfLen(0),
      cluster |-> ClusterWithout("none"), detail |-> d] :
        n \in {0, 2}, d \in DetailOutcomes}

\* The values of absolute_url: none, '', '/opinion/1/roe-v-wade/', '/' and
\* 'roe'.
UrlCases ==
    {Missing, Str(<<>>),
     Str(<<"/", "opinion", "/", "1", "/", "roe", "-", "v", "-", "wade", "/">>),
     Str(<<"/">>), Str(<<"roe">>)}

\* Results that differ in where a case name can be found.
NameCases ==
    {[PlainResult(1, <<>>, 300) EXCEPT
          !.case_name = n, !.absolute_url = u, !.cluster = c] :
        n \in {Missing, Str(<<>>), Str(<<"Roe v. Wade">>)},
        u \in UrlCases,
        c \in {ClusterWithout("status"),
               ClusterData(Str(<<>>), Missing, Missing, FALSE),
               ClusterData(Str(<<"Doe v. Bolton">>), Missing, Missing, FALSE)}}

\* What the top-level query may give.
FetchAnswers ==
    {[ok |-> TRUE, failure |-> "none", results |-> <<r>>] :
         r \in AuthorCases \cup NameCases}
        \cup {[ok |-> TRUE, failure |-> "none",
               results |-> <<PlainResult(2, <<"Unknown Case">>, 300), r>>] :
                  r \in {n \in NameCases : n.absolute_url = Str(<<"roe">>)}}
        \cup {[ok |-> TRUE, failure |-> "none", results |-> rs] :
                  rs \in SeqsUpTo(NestedCases, MaxPage)}
        \cup {QueryFailed(kind, <<>>) : kind \in FailureKinds}
        \cup {QueryFailed("http_error",
                          <<PlainResult(1, <<"Roe v. Wade">>, 300)>>)}

\* The call: it ends by returning its list.
FetchCall ==
    /\ pc = "idle"
    /\ decisions' = FetchRecentDecisions(page)
    /\ events' = IF env.token THEN <<<<"query", 0>>>> ELSE <<>>
    /\ pc' = "fetched"
    /\ UNCHANGED <<config, apl, fs, outcome, served, existing_ids,
                   new_decisions, i, analyzed_decisions, page, prev, start,
                   classified>>
    /\ printed' = FetchMessages(page)
    /\ UNCHANGED runs

FetchInit ==
    /\ env \in [key : {TRUE}, token : BOOLEAN]
    /\ client = TRUE
    /\ caller = "direct"
    /\ apl = AplIdle
    /\ fs = [p \in Paths |-> Absent]
    /\ pc = "idle"
    /\ outcome = "running"
    /\ served = 0
    /\ decisions = <<>>
    /\ existing_ids = {}
    /\ new_decisions = <<>>
    /\ i = 0
    /\ analyzed_decisions = <<>>
    /\ page \in FetchAnswers
    /\ prev = [page |-> NoPage, outcome |-> "running"]
    /\ start = fs
    /\ classified = <<>>
    /\ events = <<>>
    /\ printed = <<>>
    /\ runs = [p \in Processes |-> IdleRun]

FetchNext == FetchCall

FetchSpec == FetchInit /\ [][FetchNext]_vars

-----------------------------------------------------------------------------
(* Properties of the classification client, under ClassifySpec.            *)

Returned == apl.pc = "returned"

ShortOrAbsent(text) == text.isNone \/ text.len < 200

\* The failure description of an outcome that is not a response with text.
Failed(o) == o.kind # "text"

RateLimitSignal(o) ==
    /\ Failed(o)
    /\ \E k \in 1..Len(ErrorStr(o)) :
           ErrorStr(o)[k] \in {"429", "RESOURCE_EXHAUSTED"}

\* C7 as stated: a call with absent, empty or shorter-than-200 text returns
\* the "insufficient text" result, whatever the case name, without a remote
\* call and without a cooldown wait.
C7_ShortTextAlwaysInsufficient ==
    (Returned /\ ShortOrAbsent(apl.text)) =>
        /\ apl.result.classification = <<"Insufficient Text">>
        /\ apl.calls = 0
        /\ apl.waits = 0

\* C7, amended: with an initialised client such a call returns the
\* "insufficient text" result; without a client it returns the "Error"
\* result of the client guard, which comes first. In both cases no remote
\* call is made and no cooldown wait happens.
C7_ShortTextGuard ==
    (Returned /\ ShortOrAbsent(apl.text)) =>
        /\ apl.calls = 0
        /\ apl.waits = 0
        /\ apl.seen = <<>>
        /\ client =>
               /\ apl.result.classification = <<"Insufficient Text">>
               /\ apl.result.reasoning = <<"Not enough text to analyze">>
        /\ ~client =>
               /\ apl.result.classification = <<"Error">>
               /\ apl.result.reasoning = <<"Gemini client not initialized">>

C7_Witness ==
    /\ Returned
    /\ client
    /\ apl.text = TextOfLen(199)
    /\ apl.case_name = <<"Roe v. Wade">>
    /\ apl.result.classification = <<"Insufficient Text">>

\* C8: when the first remote attempt fails with a rate-limit signal and the
\* second succeeds, the call returns the parsed result of the second
\* response after exactly two remote calls and exactly one cooldown wait.
C8_RetryAfterRateLimit ==
    ( /\ Returned
      /\ Len(apl.seen) >= 1
      /\ RateLimitSignal(apl.seen[1])
      /\ Len(apl.seen) >= 2 => ~Failed(apl.seen[2]) ) =>
        /\ Len(apl.seen) = 2
        /\ apl.calls = 2
        /\ apl.waits = 1
        /\ apl.result = ParseResponse(apl.seen[2].text)
        /\ apl.result.classification # <<"Error">>

C8_Witness ==
    /\ Returned
    /\ Len(apl.seen) = 2
    /\ apl.seen[1] = RaiseOutcome(<<"RESOURCE_EXHAUSTED">>)
    /\ apl.seen[2].kind = "text"
    /\ apl.waits = 1
    /\ apl.result.classification = <<"Liberal">>

ResultFields ==
    {"classification", "confidence", "reasoning", "tags", "notes", "summary"}

\* C9: a remote attempt that fails with anything other than a rate-limit
\* signal is the last one: the call returns at once, with no cooldown wait
\* after it, the "Error" classification and the failure description as the
\* reasoning. Whatever the remote call and the parsing do, the call ends by
\* returning a 6-field result, never by raising.
C9_OtherFailureIsTerminal ==
    /\ apl.pc \in {"idle", "entry", "attempt", "cooldown", "returned"}
    /\ Returned => DOMAIN apl.result = ResultFields
    /\ \A k \in 1..Len(apl.seen) :
           (Failed(apl.seen[k]) /\ ~RateLimitSignal(apl.seen[k])) =>
               /\ k = Len(apl.seen)
               /\ Returned
               /\ apl.calls = k
               /\ apl.waits = k - 1
               /\ apl.result.classification = <<"Error">>
               /\ apl.result.reasoning = ErrorStr(apl.seen[k])

C9_Witness ==
    /\ Returned
    /\ apl.seen = <<RaiseOutcome(<<"503", " ", "Service Unavailable">>)>>
    /\ apl.waits = 0
    /\ apl.result.reasoning = <<"503", " ", "Service Unavailable">>

FieldNames ==
    {"Classification", "Confidence", "Tags", "Notes", "Summary", "Reasoning"}

HasPrefix(line) == \E f \in FieldNames : StartsWith(line, Prefix(f))

\* The lines of the response the call parsed last.
LastLines ==
    IF apl.seen # <<>> /\ apl.seen[Len(apl.seen)].kind = "text"
    THEN Split(Strip(apl.seen[Len(apl.seen)].text), LF)
    ELSE <<>>

\* Line s is the one Summary line, line r the one Reasoning line, and at
\* least one line lies between them, none of them with a field prefix.
SummaryThenReasoning(lines, s, r) ==
    /\ 1 <= s
    /\ s + 1 < r
    /\ r <= Len(lines)
    /\ \A k \in 1..Len(lines) : StartsWith(lines[k], Prefix("Summary")) <=> k = s
    /\ \A k \in 1..Len(lines) : StartsWith(lines[k], Prefix("Reasoning")) <=> k = r
    /\ \A k \in (s + 1)..(r - 1) : ~HasPrefix(lines[k])

IsBlank(line) == \A k \in 1..Len(line) : line[k] \in {" ", LF}

\* The Summary value and the continuation lines, stripped, blank ones left out.
SummaryParts(lines, s, r) ==
    LET all == [k \in 1..(r - s) |->
                   IF k = 1 THEN Strip(SubSeq(lines[s], 3, Len(lines[s])))
                   ELSE Strip(lines[s + k - 1])]
    IN  SelectSeq(all, LAMBDA part : ~IsBlank(part))

Occurs(part, s) ==
    \E k \in 1..(Len(s) - Len(part) + 1) : SubSeq(s, k, k + Len(part) - 1) = part

ReasoningAsExpected(lines, s, r) ==
    /\ apl.result.reasoning = Strip(SubSeq(lines[r], 3, Len(lines[r])))
    /\ \A k \in 1..Len(SummaryParts(lines, s, r)) :
           ~Occurs(SummaryParts(lines, s, r)[k], apl.result.reasoning)

\* C10 as stated: for a response whose Summary line is followed by
\* continuation lines and then a Reasoning line, the parsed summary is the
\* Summary value and the continuation lines (stripped, blank ones skipped)
\* joined by single spaces, and the reasoning is only the Reasoning value.
C10_SummaryIsJoinedLines ==
    Returned =>
        \A s, r \in 1..Len(LastLines) :
            SummaryThenReasoning(LastLines, s, r) =>
                /\ apl.result.summary = Join(SummaryParts(LastLines, s, r), " ")
                /\ ReasoningAsExpected(LastLines, s, r)

\* C10, amended: as stated when the Summary value or a continuation line is
\* not blank; when all of them are blank the parsed summary is the
\* "No summary available" placeholder, not the empty string.
C10_SummaryJoinedOrPlaceholder ==
    Returned =>
        \A s, r \in 1..Len(LastLines) :
            SummaryThenReasoning(LastLines, s, r) =>
                /\ SummaryParts(LastLines, s, r) # <<>> =>
                       apl.result.summary
                           = Join(SummaryParts(LastLines, s, r), " ")
                /\ SummaryParts(LastLines, s, r) = <<>> =>
                       apl.result.summary = <<"No summary available">>
                /\ ReasoningAsExpected(LastLines, s, r)

C10_Witness ==
    /\ Returned
    /\ SummaryThenReasoning(LastLines, 1, 4)
    /\ apl.result.summary = <<"s1", " ", "s2", " ", "s3", " ", "s4">>
    /\ apl.result.reasoning = <<"r1">>

\* The text of the response the call parsed last.
LastText ==
    IF apl.seen # <<>> /\ apl.seen[Len(apl.seen)].kind = "text"
    THEN apl.seen[Len(apl.seen)].text
    ELSE <<>>

ParsedLast == Returned /\ apl.seen # <<>> /\ apl.seen[Len(apl.seen)].kind = "text"

\* The lines are the six lines of v, one each, in some order.
IsReordering(lines, v) ==
    /\ Len(lines) = Len(FieldOrder)
    /\ {Strip(lines[k]) : k \in 1..Len(lines)}
           = {Strip(CanonicalLines(v)[k]) : k \in 1..Len(FieldOrder)}

\* The key of the result that belongs to a field of the response.
Key(field) ==
    CASE field = "Classification" -> "classification"
      [] field = "Confidence"     -> "confidence"
      [] field = "Tags"           -> "tags"
      [] field = "Notes"          -> "notes"
      [] field = "Summary"        -> "summary"
      [] field = "Reasoning"      -> "reasoning"

\* C11: a response made of the six prefixed lines in any order is parsed
\* to the same six field values as the same lines in the canonical order,
\* and the five one-line fields are the values of their lines.
C11_FieldOrderDoesNotMatter ==
    ParsedLast =>
        \A v \in FieldValues :
            IsReordering(LastLines, v) =>
                /\ apl.result = ParseResponse(Join(CanonicalLines(v), LF))
                /\ \A f \in {"Classification", "Confidence", "Tags", "Notes",
                              "Reasoning"} :
                       apl.result[Key(f)] = Strip(v[f])

C11_Witness ==
    /\ ParsedLast
    /\ LastLines = <<<<"Summary", ":", " ", "s1">>,
                     <<"Tags", ":", " ", "Privacy">>,
                     <<"Reasoning", ":", " ", "r1">>,
                     <<"Notes", ":", " ", "n1">>,
                     <<"Confidence", ":", " ", "High">>,
                     <<"Classification", ":", " ", "Liberal">>>>
    /\ apl.result.tags = <<"Privacy">>
    /\ apl.result.summary = <<"s1">>
    /\ apl.result.classification = <<"Liberal">>

\* What a field that is present is parsed to: its value, stripped; a
\* Summary line with nothing after the colon gives the placeholder.
ParsedValue(v, field) ==
    IF field = "Summary" /\ Strip(v[field]) = <<>>
    THEN <<"No summary available">>
    ELSE Strip(v[field])

AllFields == {FieldOrder[k] : k \in 1..Len(FieldOrder)}

\* The default a missing field resolves to.
Sentinel(field) ==
    CASE field = "Classification" -> <<"Unknown">>
      [] field = "Confidence"     -> <<"N/A">>
      [] field = "Reasoning"      -> <<"N/A">>
      [] field = "Tags"           -> <<>>
      [] field = "Notes"          -> <<>>
      [] field = "Summary"        -> <<"No summary available">>

\* The responses with lines missing: the text, the values and the fields
\* that are present.
PartialCases ==
    {<<Join(LinesOf(v, present), LF), v, present>> :
         v \in FieldValues, present \in SUBSET AllFields}

\* The cases the response parsed last is one of.
LastCases ==
    IF LastText \in PartialResponses
    THEN {c \in PartialCases : c[1] = LastText}
    ELSE {}

\* C12 as stated: whichever of the six lines are missing from the response,
\* the call returns the parsed result, every missing field is "Unknown",
\* "N/A" or the empty string, and every present field has its parsed value.
C12_MissingFieldsThreeSentinels ==
    ParsedLast =>
        \A c \in LastCases :
            /\ apl.result.classification # <<"Error">>
            /\ \A f \in c[3] : apl.result[Key(f)] = ParsedValue(c[2], f)
            /\ \A f \in AllFields \ c[3] :
                   apl.result[Key(f)] \in {<<"Unknown">>, <<"N/A">>, <<>>}

\* C12, amended: as stated, except that a missing summary resolves to the
\* "No summary available" placeholder; classification resolves to "Unknown",
\* confidence and reasoning to "N/A", tags and notes to the empty string.
C12_MissingFieldsGetDefaults ==
    ParsedLast =>
        \A c \in LastCases :
            /\ apl.result.classification # <<"Error">>
            /\ DOMAIN apl.result = ResultFields
            /\ \A f \in c[3] : apl.result[Key(f)] = ParsedValue(c[2], f)
            /\ \A f \in AllFields \ c[3] : apl.result[Key(f)] = Sentinel(f)

C12_Witness ==
    /\ ParsedLast
    /\ LastText = Join(<<<<"Classification", ":", " ", "Liberal">>,
                         <<"Tags", ":", " ", "Privacy">>>>, LF)
    /\ apl.result.classification = <<"Liberal">>
    /\ apl.result.confidence = <<"N/A">>
    /\ apl.result.reasoning = <<"N/A">>
    /\ apl.result.notes = <<>>

-----------------------------------------------------------------------------
(* Properties of the pipeline, under Spec.                                 *)

\* The tabular and the structured store are the files main saves to.
Tabular(files) == files["supreme_court_decisions.csv"]

Structured(files) == files["supreme_court_decisions.json"]

HeaderRow ==
    <<<<"opinion_id">>, <<"case_name">>, <<"classification">>,
      <<"text_length">>>>

DataRows(file) == SelectSeq(file.content, LAMBDA row : row # HeaderRow)

\* The opinion_ids a store holds, as text.
TabularIds(files) ==
    {DataRows(Tabular(files))[k][1] : k \in 1..Len(DataRows(Tabular(files)))}

StructuredIds(files) ==
    {PyStr(Structured(files).content[k].opinion_id) :
         k \in 1..Len(Structured(files).content)}

IsPrefix(a, b) == Len(a) <= Len(b) /\ SubSeq(b, 1, Len(a)) = a

ClassifyEvents == SelectSeq(events, LAMBDA e : e[1] = "classify")

\* The run before this one ended without an exception, and this run was
\* answered by the source exactly as that one was.
SameSourceAsBefore ==
    /\ prev.outcome \in {"saved", "nothing_new"}
    /\ prev.page.ok
    /\ page = prev.page

\* C1: of two consecutive runs against identical source data, the second
\* makes no classification call and leaves the number of rows of the
\* tabular store and of records of the structured store as they were.
C1_SecondRunClassifiesNothing ==
    SameSourceAsBefore =>
        /\ ClassifyEvents = <<>>
        /\ Len(Tabular(fs).content) = Len(Tabular(start).content)
        /\ Len(Structured(fs).content) = Len(Structured(start).content)

\* C2: over all runs, no opinion_id is handed to analyze_political_leaning
\* more than once.
C2_ClassifiedAtMostOnce ==
    \A j, k \in 1..Len(classified) :
        j # k => classified[j] # classified[k]

\* C3: a run that starts with both stores absent and saves N >= 1 new
\* records leaves a tabular store of one header row followed by exactly N
\* data rows and a structured store of exactly N records.
C3_FirstRunCounts ==
    ( /\ outcome = "saved"
      /\ ~Tabular(start).exists
      /\ ~Structured(start).exists ) =>
        LET N == Len(new_decisions)
        IN  /\ N >= 1
            /\ Tabular(fs).exists
            /\ Len(Tabular(fs).content) = N + 1
            /\ Tabular(fs).content[1] = HeaderRow
            /\ \A k \in 2..(N + 1) :
                   /\ Tabular(fs).content[k] # HeaderRow
                   /\ Tabular(fs).content[k][1]
                          = PyStr(new_decisions[k - 1].opinion_id)
            /\ Structured(fs).exists
            /\ Structured(fs).valid
            /\ Len(Structured(fs).content) = N

C3_Witness ==
    /\ outcome = "saved"
    /\ ~Tabular(start).exists
    /\ ~Structured(start).exists
    /\ Len(new_decisions) = 2
    /\ Len(Tabular(fs).content) = 3
    /\ Len(Structured(fs).content) = 2

\* C4 as stated: at the end of every run in which both saves returned, the
\* two stores hold the same set of opinion_ids, whatever they held when the
\* run started.
C4_StoresAgreeAfterEverySave ==
    outcome = "saved" => TabularIds(fs) = StructuredIds(fs)

\* The two stores agree: the tabular store is absent or begins with its
\* header row, the structured store is absent or can be parsed, and both
\* hold the same set of opinion_ids.
StoresAgree(files) ==
    /\ Tabular(files).exists =>
           /\ Tabular(files).content # <<>>
           /\ Tabular(files).content[1] = HeaderRow
    /\ Structured(files).valid
    /\ TabularIds(files) = StructuredIds(files)

\* C4, amended: a run that starts with the two stores in agreement and in
\* which both saves returned ends with the two stores holding the same set
\* of opinion_ids; a disagreement found at the start is not repaired.
C4_AgreementIsPreserved ==
    (outcome = "saved" /\ StoresAgree(start)) => StoresAgree(fs)

C4_Witness ==
    /\ outcome = "saved"
    /\ StoresAgree(start)
    /\ TabularIds(start) = {<<"1">>}
    /\ TabularIds(fs) = {<<"1">>, <<"2">>}
    /\ StructuredIds(fs) = {<<"1">>, <<"2">>}

\* C5: after save_to_csv has returned, whatever file it found, the tabular
\* store holds exactly one header row, and it is the first line.
C5_OneHeaderFirst ==
    (pc = "save_json" \/ outcome = "saved") =>
        /\ Tabular(fs).content # <<>>
        /\ Tabular(fs).content[1] = HeaderRow
        /\ \A k \in 2..Len(Tabular(fs).content) :
               Tabular(fs).content[k] # HeaderRow

\* C6: at the end of a run, every record a store held when the run started
\* is still in it, unchanged and at the same place, also when the structured
\* file could not be parsed.
C6_RecordsAreKept ==
    (pc = "done" /\ outcome # "crashed") =>
        /\ IsPrefix(Tabular(start).content, Tabular(fs).content)
        /\ IsPrefix(Structured(start).content, Structured(fs).content)

\* The classification calls and the pacing delays of this run, in order.
LoopEvents == SelectSeq(events, LAMBDA e : e[1] \in {"classify", "pace"})

\* call 1, delay 1, call 2, delay 2, ..., call n
Alternation(n) ==
    [k \in 1..(2 * n - 1) |->
        IF k % 2 = 1 THEN <<"classify", (k + 1) \div 2>>
        ELSE <<"pace", k \div 2>>]

\* The loop over the batch has ended.
LoopDone == pc \in {"save_csv", "save_json"} \/ outcome \in {"saved", "crashed"}

\* C13: in a run with a batch of N >= 1 records the calls and the pacing
\* delays alternate, starting and ending with a call: when the loop has
\* ended there were N calls and N - 1 delays, delay k between call k and
\* call k + 1, and none after call N.
C13_PacingBetweenCalls ==
    /\ IsPrefix(LoopEvents, Alternation(Len(new_decisions)))
    /\ LoopDone =>
           /\ Len(new_decisions) >= 1
           /\ LoopEvents = Alternation(Len(new_decisions))
           /\ Len(SelectSeq(events, LAMBDA e : e[1] = "pace"))
                  = Len(new_decisions) - 1

C13_Witness ==
    /\ outcome = "saved"
    /\ Len(new_decisions) = 3
    /\ LoopEvents = <<<<"classify", 1>>, <<"pace", 1>>, <<"classify", 2>>,
                      <<"pace", 2>>, <<"classify", 3>>>>

\* The rows save_to_csv appended in this run.
AppendedRows ==
    SubSeq(Tabular(fs).content,
           Len(Tabular(fs).content) - Len(new_decisions) + 1,
           Len(Tabular(fs).content))

\* C14: the batch handed to the two saves has one record per record of the
\* deduplicated fetch sequence, in the same order; each record was
\* classified by exactly one call, in that order, whatever the call
\* returned, and the rows and records written are in that order too.
C14_BatchKeepsSourceOrder ==
    /\ pc \notin {"idle", "fetch", "load"} =>
           new_decisions =
               SelectSeq(decisions,
                         LAMBDA d : PyStr(d.opinion_id) \notin existing_ids)
    /\ Len(analyzed_decisions) <= Len(new_decisions)
    /\ \A k \in 1..Len(analyzed_decisions) :
           analyzed_decisions[k].opinion_id = new_decisions[k].opinion_id
    /\ LoopDone =>
           /\ Len(analyzed_decisions) = Len(new_decisions)
           /\ ClassifyEvents
                  = [k \in 1..Len(new_decisions) |-> <<"classify", k>>]
    /\ outcome = "saved" =>
           /\ LET rows == AppendedRows
              IN  \A k \in 1..Len(new_decisions) :
                      rows[k][1] = PyStr(new_decisions[k].opinion_id)
           /\ IsPrefix(Structured(start).content \o analyzed_decisions,
                       Structured(fs).content)
                  \/ ~Structured(start).valid

C14_Witness ==
    /\ outcome = "saved"
    /\ Len(new_decisions) = 2
    /\ PyStr(new_decisions[1].opinion_id) = <<"1">>
    /\ PyStr(new_decisions[2].opinion_id) = <<"N/A">>
    /\ analyzed_decisions[1].classification = <<"Error">>
    /\ analyzed_decisions[2].classification = <<"Liberal">>
    /\ Len(ClassifyEvents) = 2

\* The query of this run has been answered.
Fetched == pc \notin {"idle", "fetch"} /\ outcome # "no_credentials"

\* The history of this run has been loaded and the page filtered.
Deduplicated == Fetched /\ pc # "load" /\ outcome # "no_decisions"

\* Nothing was classified and no file was created or changed in this run.
NothingDone ==
    /\ pc = "done"
    /\ ClassifyEvents = <<>>
    /\ \A k \in 1..Len(events) : events[k][1] \in {"query", "load"}
    /\ apl = AplIdle
    /\ analyzed_decisions = <<>>
    /\ fs = start

\* C15: when the fetch gives no decision (the query failed or the page is
\* empty) or the filter leaves no new decision, the run ends with no
\* classification call and with every file as it was.
C15_NothingNewNothingDone ==
    /\ (Fetched /\ decisions = <<>>) => (outcome = "no_decisions" /\ NothingDone)
    /\ (Deduplicated /\ new_decisions = <<>>) =>
           (outcome = "nothing_new" /\ NothingDone)

C15_Witness ==
    /\ outcome = "nothing_new"
    /\ Len(decisions) = 2
    /\ new_decisions = <<>>
    /\ existing_ids = {<<"1">>}
    /\ fs = start

\* C16: when GOOGLE_API_KEY or COURTLISTENER_TOKEN is missing, or the
\* client was not created, a started run has ended with no query to the
\* decision source, no classification call, no read of the history files
\* and no write to any file.
C16_NoCredentialsNoActivity ==
    (pc # "idle" /\ (~env.key \/ ~env.token \/ ~client)) =>
        /\ pc = "done"
        /\ outcome = "no_credentials"
        /\ events = <<>>
        /\ classified = <<>>
        /\ served = 0
        /\ page = NoPage
        /\ apl = AplIdle
        /\ fs = start

C16_Witness ==
    /\ pc = "done"
    /\ outcome = "no_credentials"
    /\ env.key
    /\ env.token
    /\ ~client
    /\ prev.outcome = "no_credentials"

\* The ids the two stores hold, a structured store that cannot be parsed
\* counting for none.
KnownToStores(files) ==
    TabularIds(files)
        \cup (IF Structured(files).valid THEN StructuredIds(files) ELSE {})

\* C20: the ids main filters the page against are exactly the ids of the
\* tabular store together with the ids of the structured store, the two
\* files the saves write, as they are when the history is loaded; a store
\* that is absent or cannot be parsed takes nothing from the other's ids.
C20_KnownIdsAreTheStoresIds ==
    (Deduplicated /\ pc \in {"classify", "classifying", "pace", "save_csv", "done"}
                  /\ outcome \in {"running", "nothing_new"}) =>
        existing_ids = KnownToStores(fs)

-----------------------------------------------------------------------------
(* Properties of fetch_recent_decisions, under FetchSpec.                  *)

FetchReturned == pc = "fetched"

\* C17: when the top-level query fails, by a timeout, an error status or
\* any other exception, the call returns the empty list, whatever the
\* answer held.
C17_FailedQueryGivesEmptyList ==
    (FetchReturned /\ ~page.ok) =>
        /\ page.failure \in {"timeout", "http_error", "exception"}
        /\ decisions = <<>>

C17_Witness ==
    /\ FetchReturned
    /\ env.token
    /\ page.failure = "http_error"
    /\ page.results # <<>>
    /\ decisions = <<>>

\* C18: whatever the cluster lookup and the detail lookup of a result give
\* (a timeout, an exception, a status other than 200, null or missing
\* fields), the call returns one decision per result of the page, each
\* with the id and the name of its result.
C18_NestedFailuresKeepEveryRecord ==
    (FetchReturned /\ env.token /\ page.ok) =>
        /\ Len(decisions) = Len(page.results)
        /\ \A k \in 1..Len(page.results) :
               /\ decisions[k].opinion_id
                      = IF page.results[k].id # 0
                        THEN IdInt(page.results[k].id) ELSE IdStr(<<"N/A">>)
               /\ decisions[k].case_name = page.results[k].case_name.s

\* The first of the sequences that is not empty, <<>> when all are.
RECURSIVE FirstAvailable(_)
FirstAvailable(sources) ==
    IF sources = <<>> THEN <<>>
    ELSE IF Head(sources) # <<>> THEN Head(sources)
    ELSE FirstAvailable(Tail(sources))

\* The author strings of a result, in the order of the fallback chain; a
\* cluster that was not fetched has none.
AuthorSources(res) ==
    <<Strip(Got(res.author_str)),
      IF res.cluster.kind = "ok" THEN Strip(Got(res.cluster.author_str))
      ELSE <<>>,
      IF res.cluster.kind = "ok" THEN Strip(Got(res.cluster.judges))
      ELSE <<>>>>

PerCuriamMarker(res) ==
    res.per_curiam \/ (res.cluster.kind = "ok" /\ res.cluster.per_curiam)

\* The author the fallback chain gives, ending in the given sentinel.
AuthorByChain(res, sentinel) ==
    IF FirstAvailable(AuthorSources(res)) # <<>>
    THEN FirstAvailable(AuthorSources(res))
    ELSE IF PerCuriamMarker(res) THEN <<"Per Curiam">>
    ELSE sentinel

\* The call returned a decision for every result of the page.
AllEmitted ==
    /\ FetchReturned
    /\ page.ok
    /\ Len(decisions) = Len(page.results)

\* C19 as stated: the author is the first available of the opinion's
\* author string, the cluster's author string and the judges field, then
\* 'Per Curiam' when the per curiam marker is set, and the "unknown"
\* sentinel when nothing is available and the marker is not set.
C19_AuthorChainEndsInUnknown ==
    AllEmitted =>
        \A k \in 1..Len(decisions) :
            decisions[k].author = AuthorByChain(page.results[k], <<"unknown">>)

\* C19, amended: the same chain, but when nothing is available and the
\* marker is not set the author is 'Per Curiam (unsigned)'.
C19_AuthorChainEndsInUnsigned ==
    AllEmitted =>
        \A k \in 1..Len(decisions) :
            decisions[k].author
                = AuthorByChain(page.results[k], <<"Per Curiam (unsigned)">>)

C19_Witness ==
    /\ AllEmitted
    /\ Len(decisions) = 1
    /\ page.results[1].author_str = Str(<<" ">>)
    /\ page.results[1].cluster.kind = "ok"
    /\ page.results[1].cluster.author_str = Str(<<>>)
    /\ page.results[1].cluster.judges = Str(<<"Roberts", ",", " ", "Kagan">>)
    /\ decisions[1].author = <<"Roberts", ",", " ", "Kagan">>

-----------------------------------------------------------------------------
(* C21: the text budget.                                                   *)

\* The lengths of the texts the source gives that are over the budget, as
\* a row of the tabular store has them.
OverBudget ==
    {<<ToString(n)>> :
        n \in {m \in {r.plain_text.len : r \in RawResults}
                      \cup {r.detail.plain_text.len : r \in RawResults} :
                  m > TextBudget}}

\* C21: every decision fetch_recent_decisions emits has a text of at most
\* 15,000 characters, whether the text came with the list result or from the
\* detail lookup; so the text handed to analyze_political_leaning, the
\* text_length of every analyzed record and every text_length written to the
\* two files are at most 15,000.
C21_TextWithinBudget ==
    /\ \A k \in 1..Len(decisions) :
           decisions[k].plain_text.len <= TextBudget
    /\ ~apl.text.isNone => apl.text.len <= TextBudget
    /\ \A k \in 1..Len(analyzed_decisions) :
           analyzed_decisions[k].text_length <= TextBudget
    /\ LET items == Structured(fs).content
       IN  \A k \in 1..Len(items) : items[k].text_length <= TextBudget
    /\ LET rows == Tabular(fs).content
       IN  \A k \in 1..Len(rows) : rows[k][4] \notin OverBudget

\* A saved run whose page had a text over the budget in the list result and
\* another one over the budget from the detail lookup, both stored with a
\* text_length of 15,000.
C21_Witness ==
    /\ outcome = "saved"
    /\ \E j, k \in 1..Len(page.results) :
           /\ page.results[j].plain_text.len > TextBudget
           /\ page.results[k].plain_text.len = 0
           /\ FinalText(page.results[k]) = page.results[k].detail.plain_text
           /\ page.results[k].detail.plain_text.len > TextBudget
    /\ Len(analyzed_decisions) >= 2
    /\ \A k \in 1..Len(analyzed_decisions) :
           analyzed_decisions[k].text_length = TextBudget

-----------------------------------------------------------------------------
(* C22: one record per opinion_id in each store.                           *)

\* C22 as stated: in every reachable state no two records of the tabular
\* store have the same opinion_id, and no two records of the structured
\* store have; records without an id and records repeated within one page
\* included.
C22_NoDuplicateIds ==
    /\ \A j, k \in 1..Len(DataRows(Tabular(fs))) :
           j # k => DataRows(Tabular(fs))[j][1] # DataRows(Tabular(fs))[k][1]
    /\ \A j, k \in 1..Len(Structured(fs).content) :
           j # k => Structured(fs).content[j].opinion_id
                        # Structured(fs).content[k].opinion_id

-----------------------------------------------------------------------------
(* C23: records whose classification failed or was not attempted.          *)

SentinelClassifications == {<<"Error">>, <<"Insufficient Text">>}

\* After the saves, every record of the batch that carries a sentinel is in
\* both stores as it is in the batch.
SentinelsAreStored ==
    outcome = "saved" =>
        \A k \in 1..Len(analyzed_decisions) :
            analyzed_decisions[k].classification \in SentinelClassifications =>
                /\ AppendedRows[k] = CsvRow(analyzed_decisions[k])
                /\ \E j \in 1..Len(Structured(fs).content) :
                       Structured(fs).content[j] = analyzed_decisions[k]

\* The loop ends only when every record of the batch has been handed to
\* analyze_political_leaning, the ones after a sentinel included.
SentinelsDoNotStopTheLoop ==
    LoopDone =>
        /\ Len(analyzed_decisions) = Len(new_decisions)
        /\ \A k \in 1..Len(new_decisions) :
               <<"classify", k>> \in {events[e] : e \in 1..Len(events)}

\* No record that a store held with a sentinel when the run started is in
\* the batch to classify.
SentinelsAreKnown ==
    pc \notin {"idle", "fetch", "load"} =>
        \A k \in 1..Len(new_decisions) :
            /\ \A r \in 1..Len(DataRows(Tabular(start))) :
                   DataRows(Tabular(start))[r][1]
                           = PyStr(new_decisions[k].opinion_id)
                       => DataRows(Tabular(start))[r][3]
                              \notin SentinelClassifications
            /\ \A r \in 1..Len(Structured(start).content) :
                   Structured(start).content[r].opinion_id
                           = new_decisions[k].opinion_id
                       => Structured(start).content[r].classification
                              \notin SentinelClassifications

\* C23 as stated: a record whose classification gave 'Error' or
\* 'Insufficient Text' is appended to both stores with its sentinel fields
\* in the same run, the records after it are still classified, and from then
\* on deduplication takes it as known, so that it is not classified again.
C23_SentinelRecordsStoredAndKnown ==
    /\ SentinelsAreStored
    /\ SentinelsDoNotStopTheLoop
    /\ SentinelsAreKnown

-----------------------------------------------------------------------------
(* C24: where the summary ends.                                            *)

\* The first line after line s that has a field prefix, or the line after
\* the last one.
SummaryEnd(lines, s) ==
    SetMin({k \in (s + 1)..Len(lines) : HasPrefix(lines[k])}
               \cup {Len(lines) + 1})

OnlySummaryAt(lines, s) ==
    \A k \in 1..Len(lines) : StartsWith(lines[k], Prefix("Summary")) <=> k = s

\* C24 as stated: the parsed summary is the Summary value and the non-blank
\* lines that follow it up to, and not including, the next line that starts
\* with one of the six prefixes; lines without a prefix that come after such
\* a line are not part of the summary. (When nothing is collected the
\* summary is the 'No summary available' placeholder.)
C24_SummaryEndsAtNextPrefix ==
    Returned =>
        \A s \in 1..Len(LastLines) :
            OnlySummaryAt(LastLines, s) =>
                LET parts == SummaryParts(LastLines, s,
                                          SummaryEnd(LastLines, s))
                IN  apl.result.summary =
                        IF parts = <<>> THEN <<"No summary available">>
                        ELSE Join(parts, " ")

-----------------------------------------------------------------------------
(* C25: the retry budget of one call.                                      *)

BothRateLimited ==
    /\ Len(apl.seen) >= 2
    /\ RateLimitSignal(apl.seen[1])
    /\ RateLimitSignal(apl.seen[2])

RetryBudget ==
    /\ apl.calls <= 2
    /\ apl.waits <= 1
    /\ apl.calls = Len(apl.seen)
    /\ (Returned /\ BothRateLimited) =>
           /\ apl.result = ErrorResult(ErrorStr(apl.seen[2]))
           /\ apl.result.classification = <<"Error">>
           /\ apl.calls = 2
           /\ apl.waits = 1

CooldownThenAttempt ==
    apl.pc = "cooldown" => apl'.pc = "attempt" /\ apl'.calls = apl.calls

\* C25: whatever the remote calls answer, one call of
\* analyze_political_leaning makes at most 2 remote calls and at most 1
\* cooldown wait, and it always returns; when both attempts are rate-limited
\* it returns the 'Error' result after exactly 2 remote calls and exactly 1
\* cooldown wait; a cooldown wait is always followed by another attempt,
\* never by the return.
C25_BoundedRetries ==
    /\ []RetryBudget
    /\ [][CooldownThenAttempt]_vars
    /\ (apl.pc = "entry") ~> Returned

C25_Witness ==
    /\ Returned
    /\ BothRateLimited
    /\ apl.calls = 2
    /\ apl.waits = 1
    /\ apl.result.classification = <<"Error">>

-----------------------------------------------------------------------------
(* C26: the order of the phases of a run.                                  *)

\* Idle, Fetching, Deduplicating, Classifying, Persisting, Done.
Phase(at) ==
    CASE at = "idle" -> 0
      [] at = "fetch" -> 1
      [] at = "load" -> 2
      [] at \in {"classify", "classifying", "pace"} -> 3
      [] at \in {"save_csv", "save_json"} -> 4
      [] at = "done" -> 5

\* A step stays in its phase, enters the next one, or ends the run; only
\* the start of a new run leaves Done. Inside Classifying the records are
\* taken one by one, from 1 to N.
PhaseStep ==
    /\ pc # "done" =>
           \/ Phase(pc') = Phase(pc)
           \/ Phase(pc') = Phase(pc) + 1
           \/ pc' = "done"
    /\ pc = "done" => pc' \in {"fetch", "done"}
    /\ (Phase(pc) = 3 /\ Phase(pc') = 3) => i' \in {i, i + 1}
    /\ (Phase(pc) = 2 /\ Phase(pc') = 3) => i' = 1
    /\ (Phase(pc) = 3 /\ Phase(pc') = 4) => i = Len(new_decisions)

\* Classification calls are made in Classifying only, with the known ids
\* loaded and the batch computed; the files are written in Persisting only,
\* when the last call has returned and every record has its result.
PhaseWork ==
    /\ classified' # classified =>
           /\ pc = "classify"
           /\ events # <<>> /\ events[Len(events)][1] \in {"load", "pace"}
           /\ \E e \in 1..Len(events) : events[e][1] = "load"
           /\ new_decisions =
                  SelectSeq(decisions,
                            LAMBDA d : PyStr(d.opinion_id) \notin existing_ids)
    /\ apl.pc # "idle" => Phase(pc) = 3
    /\ fs' # fs =>
           /\ Phase(pc) = 4
           /\ apl.pc = "idle"
           /\ Len(analyzed_decisions) = Len(new_decisions)
           /\ ClassifyEvents
                  = [k \in 1..Len(new_decisions) |-> <<"classify", k>>]

\* C26: within a run the phases come in the order Idle, Fetching,
\* Deduplicating, Classifying (records 1 to N), Persisting, Done, and no step
\* goes back to an earlier phase; no classification call is made before
\* deduplication has completed, and nothing is written before the last
\* classification call has returned.
C26_PhasesInOrder == [][PhaseStep /\ PhaseWork]_vars

\* A run that went through every phase with two records.
C26_Witness ==
    /\ outcome = "saved"
    /\ events = <<<<"query", 0>>, <<"load", 0>>, <<"classify", 1>>,
                  <<"pace", 1>>, <<"classify", 2>>, <<"csv", 2>>,
                  <<"json", 2>>>>

-----------------------------------------------------------------------------
(* C27: every run ends.                                                    *)

Running == pc \notin {"idle", "done"}

Printed(message) == \E k \in 1..Len(printed) : printed[k] = message

\* The step that stopped the run early has printed why.
EarlyStopsSayWhy ==
    /\ (pc = "done" /\ outcome = "no_credentials") =>
           Printed(KeyNotFound) \/ Printed(TokenNotFound) \/ Printed(NoClient)
    /\ (pc = "done" /\ outcome = "no_decisions") => Printed(NoDecisions)
    /\ (pc = "done" /\ outcome = "nothing_new") => Printed(AllAnalyzed)

\* C27 as stated: when every remote call and every file operation comes
\* back, with success or failure, every run gets to its end, and it ends in
\* one of four ways: it has completed the two saves, or it has stopped early
\* for missing credentials, for no new records, or for a failed fetch, with
\* a message saying so.
C27_EveryRunEndsInFourWays ==
    /\ Running ~> (pc = "done")
    /\ [](pc = "done" =>
              outcome \in {"saved", "no_credentials", "no_decisions",
                           "nothing_new"})
    /\ []EarlyStopsSayWhy

\* C27, amended: there is a fifth way for a run to end: a save that raises
\* ends main with the exception, after the loop and with the traceback as
\* the only message.
C27_EveryRunEnds ==
    /\ Running ~> (pc = "done")
    /\ [](pc = "done" =>
              outcome \in {"saved", "no_credentials", "no_decisions",
                           "nothing_new", "crashed"})
    /\ [](outcome = "crashed" =>
              /\ pc = "done"
              /\ Printed(Traceback)
              /\ Len(analyzed_decisions) = Len(new_decisions)
              /\ new_decisions # <<>>)
    /\ []EarlyStopsSayWhy

\* A run that stopped early because every record was known, and said so.
C27_Witness ==
    /\ pc = "done"
    /\ outcome = "nothing_new"
    /\ Printed(AllAnalyzed)
    /\ decisions # <<>>

-----------------------------------------------------------------------------
(* C28: recovered failures are reported.                                   *)

LastEvent == IF events = <<>> THEN "none" ELSE events[Len(events)][1]

Recovered == {"timeout", "raise", "status"}

\* After a fetch that got through its page: a message for every result
\* whose cluster lookup failed, and for every result whose detail lookup was
\* made and failed.
NestedFailuresReported ==
    ( /\ LastEvent = "query"
      /\ page.ok
      /\ \A k \in 1..Len(page.results) : ~Raises(page.results[k]) ) =>
        \A k \in 1..Len(page.results) :
            LET res == page.results[k]
            IN  /\ res.cluster.kind \in Recovered =>
                       Printed(ClusterTimedOut) \/ Printed(ClusterNotFetched)
                /\ ( /\ res.plain_text.isNone \/ res.plain_text.len = 0
                     /\ res.id # 0
                     /\ res.detail.kind \in Recovered ) =>
                       Printed(DetailNotFetched)

\* After load_existing_data: a message when one of its two files was absent
\* or could not be parsed.
SkippedFilesReported ==
    LastEvent = "load" =>
        \A path \in {LoadCsvDefault, LoadJsonDefault} :
            (~fs[path].exists \/ ~fs[path].valid) =>
                Printed(ErrorLoadingJsonData) \/ Printed(NoExistingData)

\* After save_to_json: a message when the file it read could not be parsed.
UnreadableStructuredReported ==
    (LastEvent = "json" /\ Structured(start).exists
         /\ ~Structured(start).valid) =>
        Printed(ErrorLoadingJson)

\* In the cooldown before the retry: the rate-limit message.
RetriesReported == apl.pc = "cooldown" => Printed(RateLimitHit)

\* C28 as stated: every failure that is recovered from is reported before
\* processing goes on: a cluster or detail lookup that fails by timeout,
\* exception or a status other than 200; a file that load_existing_data
\* skips because it is absent or malformed; an unreadable structured file in
\* save_to_json; a rate-limit retry.
C28_RecoveredFailuresReported ==
    /\ NestedFailuresReported
    /\ SkippedFilesReported
    /\ UnreadableStructuredReported
    /\ RetriesReported

-----------------------------------------------------------------------------
(* C29: the run after a failed structured rewrite.                         *)

\* The run before ended in a save that raised, and left every record of its
\* page in the tabular store and not every one in the structured store; this
\* run was served the same page and has loaded the known ids.
AfterFailedRewrite ==
    /\ prev.outcome = "crashed"
    /\ prev.page.ok
    /\ page = prev.page
    /\ Deduplicated
    /\ \A k \in 1..Len(decisions) :
           PyStr(decisions[k].opinion_id) \in TabularIds(start)
    /\ \E k \in 1..Len(decisions) :
           PyStr(decisions[k].opinion_id)
               \notin (IF Structured(start).valid
                       THEN StructuredIds(start) ELSE {})

\* C29 as stated: when the tabular append of a run succeeded and its
\* structured rewrite failed, the next run with the same source data takes
\* the ids of both stores together as the known ids, and so classifies none
\* of the records the tabular store already holds.
C29_NextRunSkipsTabularRecords ==
    AfterFailedRewrite =>
        /\ existing_ids = KnownToStores(start)
        /\ \A k \in 1..Len(new_decisions) :
               PyStr(new_decisions[k].opinion_id) \notin TabularIds(start)
        /\ ClassifyEvents = <<>>

-----------------------------------------------------------------------------
(* C30: failures of the saves.                                             *)

\* save_to_json of this run found a file that it could not parse.
StructuredUnreadable == Structured(start).exists /\ ~Structured(start).valid

\* C30 as stated: a failure to read or to write one of the two stores during
\* the saves ends the run with an exception, and the run does not report
\* success; a structured store that save_to_json cannot read or parse is one
\* such failure, and the save does not go on with an empty history.
C30_SaveFailuresAreFatal ==
    /\ outcome = "crashed" => Printed(Traceback) /\ ~Printed(Success)
    /\ (pc = "done" /\ outcome = "saved") =>
           /\ Printed(Success)
           /\ ~StructuredUnreadable
           /\ ~Printed(ErrorLoadingJson)

-----------------------------------------------------------------------------
(* C31: the structured store after a save.                                 *)

\* C31 as stated: when save_to_json has returned, the structured store is a
\* valid document that holds the records it held before the call, followed
\* by the batch of the run in batch order; run after run, the store is the
\* batches of the runs one after the other.
C31_StructuredIsOldThenBatch ==
    (pc = "done" /\ outcome = "saved") =>
        /\ Structured(fs).exists
        /\ Structured(fs).valid
        /\ Structured(fs).content
               = Structured(start).content \o analyzed_decisions

-----------------------------------------------------------------------------
(* C32: the structured store never runs ahead of the tabular store.        *)

\* C32: with both stores absent at first, after any sequence of runs, with
\* any of their steps failing, every opinion_id in the structured store is
\* in the tabular store too: the tabular append comes first, so the
\* structured store never holds a batch that the tabular store lacks.
C32_StructuredWithinTabular == StructuredIds(fs) \subseteq TabularIds(fs)

\* A run has saved after a run whose save raised, and the tabular store holds
\* an id that the structured store does not.
C32_Witness ==
    /\ pc = "done"
    /\ outcome = "saved"
    /\ prev.outcome = "crashed"
    /\ StructuredIds(fs) # {}
    /\ StructuredIds(fs) # TabularIds(fs)

-----------------------------------------------------------------------------
(* C33: two runs of main at the same time on the same stores.              *)

\* The process p has just stored its batch in the structured store.
Rewrites(p) == runs[p].pc = "json_write" /\ runs'[p].pc = "done"

\* C33: nothing locks the stores. A run chooses what to classify from what
\* the stores held when it loaded them, and its rewrite of the structured
\* store leaves there what it loaded followed by its own batch, whatever the
\* other run has stored since: so two runs can classify and store the same
\* opinion_id, and a rewrite can discard the records the other run wrote
\* between the load and the rewrite.
C33_RewriteKeepsOnlyWhatItLoaded ==
    [][\A p \in Processes :
           Rewrites(p) =>
               Structured(fs').content
                   = runs[p].existing_data \o runs[p].analyzed_decisions]_vars

\* Both runs have saved; an opinion_id was classified twice and has two rows
\* in the tabular store; and a record one run stored in the structured store
\* is not there any more.
C33_Witness ==
    /\ \A p \in Processes : runs[p].pc = "done" /\ runs[p].outcome = "saved"
    /\ \E a, b \in DOMAIN classified : a # b /\ classified[a] = classified[b]
    /\ LET rows == DataRows(Tabular(fs))
       IN  \E a, b \in DOMAIN rows : a # b /\ rows[a][1] = rows[b][1]
    /\ \E p \in Processes :
           \E k \in DOMAIN runs[p].analyzed_decisions :
               \A n \in DOMAIN Structured(fs).content :
                   Structured(fs).content[n] # runs[p].analyzed_decisions[k]

-----------------------------------------------------------------------------
(* C34: one Decision per raw result, in the order of the page.             *)

\* 'page_size': 20
PageSize == 20

\* C34: when the top-level query succeeds, fetch_recent_decisions returns
\* exactly one Decision per raw result of the page, in the order the source
\* returned them, and never more records than the page-size cap.
C34_OneDecisionPerResultInOrder ==
    (FetchReturned /\ env.token /\ page.ok) =>
        /\ Len(decisions) = Len(page.results)
        /\ \A k \in 1..Len(page.results) :
               decisions[k] = Decision(page.results[k])
        /\ Len(decisions) <= PageSize

-----------------------------------------------------------------------------
(* C35: the case name of every Decision.                                   *)

\* The result as it would be without its absolute_url.
WithoutUrl(res) == [res EXCEPT !.absolute_url = Missing]

\* The URL has a slug whose title is not empty.
HasSlugTitle(res) ==
    /\ Truthy(res.absolute_url)
    /\ Len(Split(res.absolute_url.s, "/")) >= 2
    /\ SlugTitle(res.absolute_url.s) # <<>>

\* The first available of: the opinion's name, the cluster's name, the title
\* of the URL's slug, 'Unknown Case'.
FirstAvailableName(res) ==
    IF Truthy(res.case_name) THEN res.case_name.s
    ELSE IF HasClusterData(res) /\ Truthy(res.cluster.case_name)
    THEN res.cluster.case_name.s
    ELSE IF HasSlugTitle(res) THEN SlugTitle(res.absolute_url.s)
    ELSE <<"Unknown Case">>

\* C35: every result of a page gets a Decision whose case_name is not empty
\* and is the first available of the opinion's name, the cluster's name, the
\* title of the URL's slug and 'Unknown Case'; an empty name or an unusable
\* URL never aborts the record. (Pages whose results would raise even
\* without a URL are left out.)
C35_EveryRecordIsNamed ==
    (/\ FetchReturned /\ env.token /\ page.ok
     /\ \A k \in 1..Len(page.results) : ~Raises(WithoutUrl(page.results[k])))
        => /\ Len(decisions) = Len(page.results)
           /\ \A k \in 1..Len(page.results) :
                  /\ decisions[k].case_name # <<>>
                  /\ decisions[k].case_name
                         = FirstAvailableName(page.results[k])

-----------------------------------------------------------------------------
(* C36: Version A on the same source data again, and records without text. *)

\* A run of Version A has ended after a run that ended without an
\* exception.
SecondRunEnded ==
    /\ pc = "done"
    /\ prev.outcome \in {"saved", "nothing_new", "no_decisions"}

\* C36: in Version A a second run against identical source data classifies
\* zero records and appends zero rows; and a record whose text is empty is
\* given a placeholder shorter than the 100-character threshold, so it always
\* yields 'Insufficient text' without a remote call.
C36_SecondRunDoesNothing ==
    /\ SecondRunEnded =>
           /\ analyzed_decisions = <<>>
           /\ \A k \in 1..Len(events) : events[k][1] # "remote"
           /\ fs = start
    /\ PlaceholderLen < AnalyzerMinTextLen
    /\ \A k \in 1..Len(analyzed_decisions) :
           new_decisions[k].plain_text.len = 0 =>
               /\ analyzed_decisions[k].classification
                      = <<"Insufficient text">>
               /\ <<"remote", k>> \notin {events[n] : n \in 1..Len(events)}

=============================================================================
